---- MODULE Spec2Model ----
(***************************************************************************)
(* Field / Form state machine of solid-form.                               *)
(*                                                                         *)
(* Core (packages/form): class Field and class Form, with the              *)
(* EventEmitter relay between them; the solid-form2 createForm that        *)
(* wraps a core Form; and the signal-based createForm / createField of     *)
(* src/src.  Every action is one synchronous segment of JavaScript: a      *)
(* call up to its first await, or the continuation of a suspended async    *)
(* call up to its next await.  Suspended calls live in `tasks`; `last`     *)
(* and `events` record the segment that ran last.                          *)
(***************************************************************************)
EXTENDS Integers, Sequences, FiniteSets, TLC

VARIABLES created, instances, value, defaultValue, required, validations,
          errors, validationErrors, submitError, status, tasks, quiet, last,
          events, validationMode, store, formOptions, listeners, calls, items,
          subs, content, ctrl, el

vars == <<created, instances, value, defaultValue, required, validations,
          errors, validationErrors, submitError, status, tasks, quiet, last,
          events, validationMode, store, formOptions, listeners, calls,
          items, subs, content, ctrl, el>>

\* the state of the core Form and of the solid-form2 wrapper over it
coreVars == <<created, instances, value, defaultValue, required,
              validations, errors, validationErrors, submitError, status,
              validationMode>>
\* the state of the signal-based createForm
signalVars == <<store, formOptions>>
\* a stand-alone EventEmitter with the handler calls of its last emit, and
\* a stand-alone ObservableList
standVars == <<listeners, calls, items>>
\* the Model instances a field can hold as its value: how often each
\* field's #onValueChange is among a Model's `change` listeners, and the
\* Model's content
boxVars == <<subs, content>>
\* the InputController bound to one field, and the value its element shows
domVars == <<ctrl, el>>
modelVars == <<standVars, boxVars, domVars>>

(* ------------------------------ bounds ------------------------------- *)

\* number of async calls (validate / submit) that may be suspended at once
MaxTasks == 1
\* number of listeners registered on the stand-alone emitter at once
MaxListeners == 3
\* number of items in the stand-alone list
MaxItems == 3
\* number of times InputController.enable() is called without a disable()
MaxEnables == 2

(* ------------------------------ values ------------------------------- *)

NameSet == {"a", "b"}

Undef == [t |-> "undefined"]
Str(s) == [t |-> "string", s |-> s]
Obj == [t |-> "object"]
Num(n) == [t |-> "number", n |-> n]
False == [t |-> "boolean", b |-> FALSE]
\* an array of len elements
Arr(len) == [t |-> "array", len |-> len]

\* a Model instance of @kildevaeld/model, by identity
Model(c) == [t |-> "model", id |-> c]
ModelIds == {1, 2}
IsModel(v) == v.t = "model"

\* values a caller hands to setValue / defaultValues
Values == {Undef, Str("ab"), Str("abcd"), Obj}

ValidationError(message) == [t |-> "ValidationError", message |-> message]
Error(message) == [t |-> "Error", message |-> message]
TypeError(message) == [t |-> "TypeError", message |-> message]

\* instanceof Error: ValidationError and TypeError extend Error
IsError(e) == e.t \in {"Error", "ValidationError", "TypeError"}

\* String(e) of the non-Error values a submit callback rejects with
String(v) ==
  IF v.t = "string" THEN v.s
  ELSE IF v.t = "undefined" THEN "undefined"
  ELSE "[object Object]"

isEqual(a, b) == a = b

(* ---------------------------- validator.ts --------------------------- *)

min(n) == [kind |-> "min", n |-> n, message |-> "Minimum length is " \o ToString(n)]
max(n) == [kind |-> "max", n |-> n, message |-> "Maximum length is " \o ToString(n)]

\* LengthBase.getLenth: -1 stands for `throw new TypeError("Invalid value")`
getLenth(v) ==
  IF v.t = "string" THEN Len(v.s)
  ELSE IF v.t = "number" THEN v.n
  ELSE IF v.t = "array" THEN v.len
  ELSE -1

\* outcome of `await validation.validate(v)`: "ok", or the thrown exception
Validate(rule, v) ==
  LET len == getLenth(v) IN
  IF len = -1 THEN TypeError("Invalid value")
  ELSE IF rule.kind = "min" /\ len < rule.n THEN ValidationError(rule.message)
  ELSE IF rule.kind = "max" /\ len > rule.n THEN ValidationError(rule.message)
  ELSE [t |-> "ok"]

(* ------------------------------ events ------------------------------- *)

\* events emitted in the last segment, in emission order.  `on` is the
\* emitter: "form" or the field's name.
EvFieldChange(n, prev, v) ==
  [on |-> n, ev |-> "change", prev |-> prev, value |-> v]
EvFormFieldChange(n, prev, v) ==
  [on |-> "form", ev |-> "change:" \o n, prev |-> prev, value |-> v]
EvFormChange == [on |-> "form", ev |-> "change"]
EvFieldReset(n) == [on |-> n, ev |-> "reset"]
EvFieldValidate(n, errs) ==
  IF Len(errs) > 0
  THEN [on |-> n, ev |-> "validate", status |-> "invalid", errors |-> errs]
  ELSE [on |-> n, ev |-> "validate", status |-> "valid"]
\* `seen`: form.validationErrors[n] as a listener of the event reads it
EvFormFieldValidate(n, errs, seen) ==
  IF Len(errs) > 0
  THEN [on |-> "form", ev |-> "validate:" \o n, status |-> "invalid",
        errors |-> errs, seen |-> seen]
  ELSE [on |-> "form", ev |-> "validate:" \o n, status |-> "valid",
        seen |-> seen]
EvFormValidate(failed, verrs) ==
  IF failed
  THEN [on |-> "form", ev |-> "validate", status |-> "invalid", fieldErrors |-> verrs]
  ELSE [on |-> "form", ev |-> "validate", status |-> "valid"]
EvStatusChange(prev, st) == [on |-> "form", ev |-> "statusChange", prev |-> prev, status |-> st]
EvSubmitOk == [on |-> "form", ev |-> "submit", status |-> "ok"]
EvSubmitError(e) == [on |-> "form", ev |-> "submit", status |-> "error", error |-> e]
\* the caller-supplied submit function being invoked with `values`
EvCallback(values) == [on |-> "user", ev |-> "func", values |-> values]


(* ------------------------- construction options --------------------- *)

\* FormOptions: `fields` and `defaultValues` are objects; their key order
\* (for-in order) is kept by writing them as sequences of entries.
FieldOpt(n, req, vals) == [name |-> n, required |-> req, validations |-> vals]
Default(n, v) == [name |-> n, value |-> v]

\* new Form({}): every field is created on first access
OptionsEmpty == [fields |-> <<>>, defaultValues |-> <<>>]
\* one required field with two rules
OptionsOne ==
  [fields |-> <<FieldOpt("a", TRUE, <<min(3), max(3)>>)>>,
   defaultValues |-> <<>>]
\* two required fields, the first with a rule
OptionsTwo ==
  [fields |-> <<FieldOpt("a", TRUE, <<min(3)>>), FieldOpt("b", TRUE, <<>>)>>,
   defaultValues |-> <<>>]
\* default values, one of them for a field that also has options
OptionsDefaults ==
  [fields |-> <<FieldOpt("b", TRUE, <<>>)>>,
   defaultValues |-> <<Default("a", Str("ab")), Default("b", Str("abcd"))>>]

\* one field with two rules, required or optional
OptionsRules(req) ==
  [fields |-> <<FieldOpt("a", req, <<min(3), max(1)>>)>>,
   defaultValues |-> <<>>]
\* values a caller hands to the fields of OptionsRules
RuleValues ==
  {Undef, Str(""), Str("ab"), Num(0), Num(2), False, Arr(0), Arr(2), Obj}

\* field b named in both `fields` and `defaultValues`; a is not configured
OptionsBoth ==
  [fields |-> <<FieldOpt("b", TRUE, <<>>)>>,
   defaultValues |-> <<Default("b", Str("abcd"))>>]

\* the `defaultValues` argument of Form.reset: absent, or a Partial<T>
NoArg == [given |-> FALSE]
Partial(m) == [given |-> TRUE, map |-> m]
ResetArgs == {NoArg, Partial("a" :> Str("abcd"))}

\* what a submit callback can throw or reject with
Thrown == {Error("oops"), Str("oops")}

Range(s) == {s[i] : i \in 1..Len(s)}

Lookup(entries, n) ==
  LET hit == {i \in 1..Len(entries) : entries[i].name = n}
  IN IF hit = {} THEN Undef ELSE entries[CHOOSE i \in hit : TRUE].value

RECURSIVE NamesOf(_)
NamesOf(entries) ==
  IF entries = <<>> THEN <<>>
  ELSE <<entries[1].name>> \o NamesOf(Tail(entries))

RECURSIVE Without(_, _)
Without(s, set) ==
  IF s = <<>> THEN <<>>
  ELSE IF s[1] \in set THEN Without(Tail(s), set)
  ELSE <<s[1]>> \o Without(Tail(s), set)

\* Form constructor: fields named in options.fields first, then the
\* names of options.defaultValues that have no field yet
ConstructorOrder(options) ==
  NamesOf(options.fields) \o
    Without(NamesOf(options.defaultValues), Range(NamesOf(options.fields)))

FieldOptOf(options, n) ==
  LET hit == {i \in 1..Len(options.fields) : options.fields[i].name = n}
  IN IF hit = {} THEN FieldOpt(n, FALSE, <<>>)
     ELSE options.fields[CHOOSE i \in hit : TRUE]

(* ------------------------------ tasks -------------------------------- *)

NoTask == [kind |-> "none"]
Slots == 1..MaxTasks
InFlight == {i \in Slots : tasks[i].kind # "none"}
FreeSlots == Slots \ InFlight
FirstFree == CHOOSE i \in FreeSlots : \A j \in FreeSlots : i <= j

\* `quiet`: the one suspended call has had the form to itself since it was
\* called (no other call ran in between).  TRUE when nothing is suspended.
\* a call that returns without suspending
Sync ==
  /\ tasks' = tasks
  /\ quiet' = (InFlight = {})
\* a call that suspends at an await
Spawn(t) ==
  /\ tasks' = [tasks EXCEPT ![FirstFree] = t]
  /\ quiet' = (InFlight = {})
\* the suspended call i continues and suspends again as t
Continue(i, t) ==
  /\ tasks' = [tasks EXCEPT ![i] = t]
  /\ quiet' = quiet
\* the suspended call i continues and returns
Finish(i) ==
  /\ tasks' = [tasks EXCEPT ![i] = NoTask]
  /\ quiet' = (InFlight = {i})

\* the last segment: the call it belongs to, what the call returned (or
\* "pending"), and whether the call ran undisturbed
Last(op, f, ret) == [op |-> op, f |-> f, ret |-> ret, quiet |-> TRUE]
LastOf(i, op, f, ret) == [op |-> op, f |-> f, ret |-> ret, quiet |-> quiet]
Bool(b) == IF b THEN "true" ELSE "false"

(* ------------------------------ Field -------------------------------- *)

\* `this.#value == undefined || this.#value == ""` (loose equality)
IsEmptyValue(v) ==
  \/ v.t = "undefined"
  \/ (v.t = "string" /\ v.s = "")
  \/ (v.t = "number" /\ v.n = 0)
  \/ (v.t = "boolean" /\ ~v.b)
  \/ (v.t = "array" /\ v.len = 0)

Field_isDirty(n) == ~isEqual(defaultValue[n], value[n])
Field_isValid(n) == Len(errors[n]) = 0

\* variant: a relay that emits `change` whatever the form's status
RelayChange_Always(n, prev, v, st) ==
  <<EvFieldChange(n, prev, v), EvFormFieldChange(n, prev, v), EvFormChange>>

\* variant: a relay that holds `change` back only while the form resets
RelayChange_ResetOnly(n, prev, v, st) ==
  <<EvFieldChange(n, prev, v), EvFormFieldChange(n, prev, v)>> \o
    (IF st # "resetting" THEN <<EvFormChange>> ELSE <<>>)

\* Form.#createField: relay of the field's `change` event
RelayChange(n, prev, v, st) ==
  <<EvFieldChange(n, prev, v), EvFormFieldChange(n, prev, v)>> \o
    (IF st = "idle" THEN <<EvFormChange>> ELSE <<>>)

\* dom/util.ts setValue on an input element: el.value = `${value}`
Shown(v) == Str(String(v))
\* the InputController writing its element
EvElementSet(v) == [on |-> "element", ev |-> "setValue", value |-> Shown(v)]

\* the field the InputController is bound to
ControlledField == "a"

RECURSIVE Repeat(_, _)
Repeat(evs, k) == IF k = 0 THEN <<>> ELSE evs \o Repeat(evs, k - 1)

\* InputController.#onFieldChange, once per registration on the field
OnFieldChange(n, v) ==
  IF n = ControlledField THEN Repeat(<<EvElementSet(v)>>, ctrl.subs)
  ELSE <<>>

\* Field.emit("change", {prev, value}): the form's relay, registered when
\* the field was created, then the controller's listener
EmitChange(n, prev, v, st) ==
  RelayChange(n, prev, v, st) \o OnFieldChange(n, v)

\* the element after field n emitted `change` (or did not) with value v
ElementAfter(n, changed, v) ==
  IF changed /\ n = ControlledField /\ ctrl.subs > 0 THEN Shown(v) ELSE el

\* Form.#createField: relay of the field's `validate` event
RelayValidateErrors(n, errs, ve) ==
  IF Len(errs) = 0
  THEN [k \in DOMAIN ve \ {n} |-> ve[k]]
  ELSE (n :> errs) @@ ve

\* `form.validationErrors[n]` read from ve: absent, or the errors
EntryOf(ve, n) ==
  IF n \in DOMAIN ve THEN [has |-> TRUE, errors |-> ve[n]]
  ELSE [has |-> FALSE, errors |-> <<>>]

\* variant: a relay that emits `validate:<name>` before it writes
\* #validationErrors
ErrorsAtRelayEmit_Before(n, errs, ve) == ve

\* #validationErrors when the relay emits `validate:<name>`: the field's
\* `validate` listener has written the entry of n just before
ErrorsAtRelayEmit(n, errs, ve) == RelayValidateErrors(n, errs, ve)

\* the tail of Field.validate: emit (if trigger) and return
FinishValidate(n, trigger, errs, ve) ==
  [ susp |-> FALSE, thrown |-> FALSE, errs |-> errs,
    ve |-> IF trigger THEN RelayValidateErrors(n, errs, ve) ELSE ve,
    evs |-> IF trigger
            THEN <<EvFieldValidate(n, errs),
                   EvFormFieldValidate(n, errs,
                     EntryOf(ErrorsAtRelayEmit(n, errs, ve), n))>>
            ELSE <<>>,
    ret |-> Len(errs) = 0 ]

\* variant: a validate that lets an empty value of a required field pass
StartValidate_NoRequired(n, trigger, ve) ==
  IF IsEmptyValue(value[n]) \/ Len(validations[n]) = 0
  THEN FinishValidate(n, trigger, <<>>, ve)
  ELSE [ susp |-> TRUE, thrown |-> FALSE, errs |-> <<>>, ve |-> ve,
         evs |-> <<>>, vi |-> 1, arg |-> value[n] ]

\* Field.validate from its call to its first await (or to its return),
\* v being the field's value when it is called
StartValidateOf(n, v, trigger, ve) ==
  IF IsEmptyValue(v)
  THEN FinishValidate(n, trigger,
         IF required[n] THEN <<ValidationError("Required")>> ELSE <<>>, ve)
  ELSE IF Len(validations[n]) = 0
  THEN FinishValidate(n, trigger, <<>>, ve)
  ELSE [ susp |-> TRUE, thrown |-> FALSE, errs |-> <<>>, ve |-> ve,
         evs |-> <<>>, vi |-> 1, arg |-> v ]

StartValidate(n, trigger, ve) == StartValidateOf(n, value[n], trigger, ve)

\* variant: a catch block that records whatever the validation threw
ResumeValidate_CatchAll(n, trigger, vi, arg, ve) ==
  LET out == Validate(validations[n][vi], arg)
      errs == IF out.t # "ok" THEN Append(errors[n], out) ELSE errors[n]
  IN IF vi < Len(validations[n])
     THEN [ susp |-> TRUE, thrown |-> FALSE, errs |-> errs, ve |-> ve,
            evs |-> <<>>, vi |-> vi + 1, arg |-> value[n] ]
     ELSE FinishValidate(n, trigger, errs, ve)

\* Field.validate resumed when `validation.validate(arg)` number vi settles
ResumeValidate(n, trigger, vi, arg, ve) ==
  LET out == Validate(validations[n][vi], arg)
      errs == IF out.t = "ValidationError" THEN Append(errors[n], out)
              ELSE errors[n]
  IN IF out.t = "TypeError"
     THEN [ susp |-> FALSE, thrown |-> TRUE, errs |-> errors[n], ve |-> ve,
            evs |-> <<>>, error |-> out ]
     ELSE IF vi < Len(validations[n])
     THEN [ susp |-> TRUE, thrown |-> FALSE, errs |-> errs, ve |-> ve,
            evs |-> <<>>, vi |-> vi + 1, arg |-> value[n] ]
     ELSE FinishValidate(n, trigger, errs, ve)


(* ------------------------------- Init -------------------------------- *)

\* the number of `new Field` (and of relay registrations) for name n in a
\* sequence of #createField calls
Built(built, n) == Cardinality({k \in 1..Len(built) : built[k] = n})

\* new Form(options): one Field per configured name, no errors, idle
Constructed(options) ==
  /\ created = ConstructorOrder(options)
  /\ instances = [n \in NameSet |-> Built(ConstructorOrder(options), n)]
  /\ value = [n \in NameSet |-> Lookup(options.defaultValues, n)]
  /\ defaultValue = [n \in NameSet |-> Lookup(options.defaultValues, n)]
  /\ required = [n \in NameSet |-> FieldOptOf(options, n).required]
  /\ validations = [n \in NameSet |-> FieldOptOf(options, n).validations]
  /\ errors = [n \in NameSet |-> <<>>]
  /\ validationErrors = [n \in {} |-> <<>>]
  /\ submitError = Undef
  /\ status = "idle"
  /\ tasks = [i \in Slots |-> NoTask]
  /\ quiet = TRUE
  /\ last = Last("new Form", "", "undefined")
  /\ events = <<>>

(* --------------------------- Field actions --------------------------- *)

\* variant: a lookup that never finds the field
HasField_Never(n) == FALSE

\* `this.#fields[name]` is set
HasField(n) == n \in Range(created)

\* what Form.field(name) reports: the Field held for the name, told apart
\* by the ordinal of its construction
LastField(n, k) ==
  [op |-> "Form.field", f |-> n, ret |-> "Field", quiet |-> TRUE, inst |-> k]

\* Form.field(name): build the Field on first access, with the name alone,
\* and return the one held in #fields
FieldAccess(n) ==
  /\ IF HasField(n)
     THEN UNCHANGED <<created, instances, value, defaultValue, required,
                      validations, errors>>
     ELSE \* `this.#fields[options.name] = field`: a new key goes last
          /\ created' = IF n \in Range(created) THEN created
                        ELSE Append(created, n)
          /\ instances' = [instances EXCEPT ![n] = @ + 1]
          /\ value' = [value EXCEPT ![n] = Undef]
          /\ defaultValue' = [defaultValue EXCEPT ![n] = Undef]
          /\ required' = [required EXCEPT ![n] = FALSE]
          /\ validations' = [validations EXCEPT ![n] = <<>>]
          /\ errors' = [errors EXCEPT ![n] = <<>>]
  /\ Sync
  /\ last' = LastField(n, instances'[n])
  /\ events' = <<>>
  /\ UNCHANGED <<validationErrors, submitError, status, validationMode,
                 signalVars, modelVars>>

\* Field.#setValue: `off` on the Model that was the value (the filter drops
\* every copy of the listener), `on` on the Model that becomes the value
Resubscribe(s, n, old, new) ==
  LET s1 == IF IsModel(old) THEN [s EXCEPT ![old.id][n] = 0] ELSE s IN
  IF IsModel(new) THEN [s1 EXCEPT ![new.id][n] = @ + 1] ELSE s1

\* variant: a setter that leaves `this.#errors` as it is
SetValueErrors_Kept(n, v) == errors[n]

\* errors of field n after Field.setValue(v)
SetValueErrors(n, v) ==
  IF ~isEqual(value[n], v) THEN <<>> ELSE errors[n]

\* Field.setValue(v), also the `value` setter
SetValue(n, v) ==
  LET changed == ~isEqual(value[n], v) IN
  /\ n \in Range(created)
  /\ value' = [value EXCEPT ![n] = v]
  /\ errors' = [errors EXCEPT ![n] = SetValueErrors(n, v)]
  /\ events' = IF changed THEN EmitChange(n, value[n], v, status) ELSE <<>>
  /\ subs' = Resubscribe(subs, n, value[n], v)
  /\ el' = ElementAfter(n, changed, v)
  /\ Sync
  /\ last' = Last("Field.setValue", n, Bool(changed))
  /\ UNCHANGED <<created, defaultValue, required, validations,
                 validationErrors, submitError, status, validationMode, instances,
                 signalVars, standVars, content, ctrl>>

\* variant: a reset that emits `reset` before it sets the value
ResetEvents_ResetFirst(n, st) ==
  <<EvFieldReset(n)>> \o
  (IF ~isEqual(value[n], defaultValue[n])
   THEN EmitChange(n, value[n], defaultValue[n], st) ELSE <<>>)

\* events of one Field.reset() while the form has status st
ResetEvents(n, st) ==
  (IF ~isEqual(value[n], defaultValue[n])
   THEN EmitChange(n, value[n], defaultValue[n], st) ELSE <<>>)
  \o <<EvFieldReset(n)>>

\* Field.reset()
FieldReset(n) ==
  /\ n \in Range(created)
  /\ value' = [value EXCEPT ![n] = defaultValue[n]]
  /\ errors' = [errors EXCEPT ![n] = <<>>]
  /\ events' = ResetEvents(n, status)
  /\ subs' = Resubscribe(subs, n, value[n], defaultValue[n])
  /\ el' = ElementAfter(n, ~isEqual(value[n], defaultValue[n]), defaultValue[n])
  /\ Sync
  /\ last' = [op |-> "Field.reset", f |-> n,
               ret |-> Bool(~isEqual(value[n], defaultValue[n])),
               quiet |-> quiet, before |-> value[n]]
  /\ UNCHANGED <<created, defaultValue, required, validations,
                 validationErrors, submitError, status, validationMode, instances,
                 signalVars, standVars, content, ctrl>>

FieldTask(n, trigger, vi, arg) ==
  [kind |-> "Field.validate", f |-> n, trigger |-> trigger, vi |-> vi,
   arg |-> arg]

\* Field.validate(trigger) called by a user of the field
FieldValidate(n, trigger) ==
  LET r == StartValidate(n, trigger, validationErrors) IN
  /\ n \in Range(created)
  /\ r.susp => FreeSlots # {}
  /\ errors' = [errors EXCEPT ![n] = r.errs]
  /\ validationErrors' = r.ve
  /\ events' = r.evs
  /\ IF r.susp THEN Spawn(FieldTask(n, trigger, r.vi, r.arg)) ELSE Sync
  /\ last' = Last("Field.validate", n, IF r.susp THEN "pending" ELSE Bool(r.ret))
  /\ UNCHANGED <<created, value, defaultValue, required, validations,
                 submitError, status, validationMode, instances,
                 signalVars, modelVars>>

\* a suspended Field.validate continues: its awaited validation settled
FieldValidateResume(i) ==
  LET t == tasks[i]
      r == ResumeValidate(t.f, t.trigger, t.vi, t.arg, validationErrors) IN
  /\ tasks[i].kind = "Field.validate"
  /\ errors' = [errors EXCEPT ![t.f] = r.errs]
  /\ validationErrors' = r.ve
  /\ events' = r.evs
  /\ IF r.susp
     THEN Continue(i, [t EXCEPT !.vi = r.vi, !.arg = r.arg])
     ELSE Finish(i)
  /\ last' = LastOf(i, "Field.validate", t.f,
                    IF r.susp THEN "pending"
                    ELSE IF r.thrown THEN "TypeError" ELSE Bool(r.ret))
  /\ UNCHANGED <<created, value, defaultValue, required, validations,
                 submitError, status, validationMode, instances,
                 signalVars, modelVars>>

(* -------------------------- InputController ------------------------- *)

ValidateModes == {"change", "blur", "submit"}
\* what a user types into the element
Typed == {Str(""), Str("ab")}

\* new InputController(el, {field, validateMode}): the element shows the
\* field's value
ControllerBuilt(mode) ==
  /\ ctrl = [mode |-> mode, listening |-> FALSE, subs |-> 0]
  /\ el = Shown(value[ControlledField])

\* InputController.enable(): addEventListener ignores a listener that is
\* already attached, EventEmitter.on pushes another copy
ControllerEnable ==
  /\ ctrl.mode # "none"
  /\ ctrl.subs < MaxEnables
  /\ ctrl' = [ctrl EXCEPT !.listening = TRUE, !.subs = @ + 1]
  /\ events' = <<>>
  /\ Sync
  /\ last' = Last("enable", ControlledField, "undefined")
  /\ UNCHANGED <<coreVars, signalVars, standVars, boxVars, el>>

\* InputController.disable()
ControllerDisable ==
  /\ ctrl.mode # "none"
  /\ ctrl' = [ctrl EXCEPT !.listening = FALSE, !.subs = 0]
  /\ events' = <<>>
  /\ Sync
  /\ last' = Last("disable", ControlledField, "undefined")
  /\ UNCHANGED <<coreVars, signalVars, standVars, boxVars, el>>

\* the last segment was an event of the element: `before` is the field's
\* value before the event, `ret` what field.validate() returned ("none":
\* the controller did not call it)
LastDom(op, ret) ==
  [op |-> op, f |-> ControlledField, ret |-> ret, quiet |-> TRUE,
   before |-> value[ControlledField]]

\* variant: a controller that validates on every input event
ValidatesOnInput_Always(mode) == TRUE

\* #onInput: `if (this.#validationMode == "change")`
ValidatesOnInput(mode) == mode = "change"

\* #onBlur: `if (this.#validationMode == "blur")`
ValidatesOnBlur(mode) == mode = "blur"

\* variant: an #onInput that leaves its field listener registered
\* while it sets the value
EchoDuringInput_Kept(n, v) == OnFieldChange(n, v)

\* the calls of #onFieldChange while #onInput sets the field's value: the
\* listener has been taken off the field
EchoDuringInput(n, v) == <<>>

\* the user types v into the element and the element dispatches its
\* input event: #onInput, when the controller listens
ElementInput(v) ==
  LET n == ControlledField
      changed == ~isEqual(value[n], v)
      validates == ctrl.listening /\ ValidatesOnInput(ctrl.mode)
      r == StartValidateOf(n, v, TRUE, validationErrors) IN
  /\ ctrl.mode # "none"
  /\ n \in Range(created)
  /\ IF ctrl.listening
     THEN /\ value' = [value EXCEPT ![n] = v]
          /\ subs' = Resubscribe(subs, n, value[n], v)
          /\ ctrl' = [ctrl EXCEPT !.subs = 1]
          /\ el' = v
          /\ IF validates
             THEN /\ r.susp => FreeSlots # {}
                  /\ errors' = [errors EXCEPT ![n] = r.errs]
                  /\ validationErrors' = r.ve
                  /\ events' = (IF changed
                                THEN RelayChange(n, value[n], v, status)
                                       \o EchoDuringInput(n, v)
                                ELSE <<>>) \o r.evs
                  /\ IF r.susp THEN Spawn(FieldTask(n, TRUE, r.vi, r.arg))
                     ELSE Sync
                  /\ last' = LastDom("input",
                                     IF r.susp THEN "pending" ELSE Bool(r.ret))
             ELSE /\ errors' = [errors EXCEPT ![n] = SetValueErrors(n, v)]
                  /\ events' = IF changed
                               THEN RelayChange(n, value[n], v, status)
                                      \o EchoDuringInput(n, v)
                               ELSE <<>>
                  /\ Sync
                  /\ last' = LastDom("input", "none")
                  /\ UNCHANGED validationErrors
     ELSE /\ el' = v
          /\ events' = <<>>
          /\ Sync
          /\ last' = LastDom("input", "none")
          /\ UNCHANGED <<value, errors, validationErrors, subs, ctrl>>
  /\ UNCHANGED <<created, defaultValue, required, validations, submitError,
                 status, validationMode, instances, signalVars, standVars,
                 content>>

\* the element loses focus and dispatches blur: #onBlur, when the
\* controller listens
ElementBlur ==
  LET n == ControlledField
      validates == ctrl.listening /\ ValidatesOnBlur(ctrl.mode)
      r == StartValidate(n, TRUE, validationErrors) IN
  /\ ctrl.mode # "none"
  /\ n \in Range(created)
  /\ IF validates
     THEN /\ r.susp => FreeSlots # {}
          /\ errors' = [errors EXCEPT ![n] = r.errs]
          /\ validationErrors' = r.ve
          /\ events' = r.evs
          /\ IF r.susp THEN Spawn(FieldTask(n, TRUE, r.vi, r.arg)) ELSE Sync
          /\ last' = LastDom("blur",
                             IF r.susp THEN "pending" ELSE Bool(r.ret))
     ELSE /\ events' = <<>>
          /\ Sync
          /\ last' = LastDom("blur", "none")
          /\ UNCHANGED <<errors, validationErrors>>
  /\ UNCHANGED <<created, value, defaultValue, required, validations,
                 submitError, status, validationMode, instances, signalVars,
                 modelVars>>

(* ------------------------------- Form -------------------------------- *)

\* variant: validity read from the form's record of validation errors
Form_isValid_Recorded == DOMAIN validationErrors = {}

Form_isDirty == \E n \in Range(created) : Field_isDirty(n)
Form_isValid == \A n \in Range(created) : Field_isValid(n)
toJSON == [n \in Range(created) |-> value[n]]
NoErrors == [n \in {} |-> <<>>]

\* Form.#setStatus: the statusChange event, if the status changes
setStatus(prev, st) ==
  IF prev # st THEN <<EvStatusChange(prev, st)>> ELSE <<>>

ToError(e) == IF IsError(e) THEN e ELSE Error(String(e))

\* what the promise returned by Form.validate resolves to: the function
\* has no return statement
FormValidateResult(failed) == "undefined"

\* the names of the `validate:<name>` events among evs, in order
RECURSIVE ValidatedNames(_)
ValidatedNames(evs) ==
  IF evs = <<>> THEN <<>>
  ELSE LET hit == {n \in NameSet : evs[1].ev = "validate:" \o n} IN
       (IF hit = {} THEN <<>> ELSE <<CHOOSE n \in hit : TRUE>>)
       \o ValidatedNames(Tail(evs))

RECURSIVE Reverse(_)
Reverse(q) == IF q = <<>> THEN <<>> ELSE Append(Reverse(Tail(q)), q[1])

\* variant: a loop that visits the fields last created first
ForInKeys_Reversed == Reverse(created)

\* `for (const k in this.#fields)`: the names in the order the fields
\* were created
ForInKeys == created

\* `log`: the `validate:<name>` events the pass has emitted so far
FormValidateTask(keys, ki, r, failed, wrapper, log) ==
  [kind |-> "Form.validate", keys |-> keys, ki |-> ki, f |-> keys[ki],
   log |-> log \o ValidatedNames(r.evs),
   vi |-> IF r.susp THEN r.vi ELSE 0,
   arg |-> IF r.susp THEN r.arg ELSE Undef,
   inner |-> IF r.susp THEN TRUE ELSE r.ret,
   failed |-> failed, wrapper |-> wrapper]

\* the wrapper's submit, suspended at `await form.validate()`
WrapperTask == [kind |-> "wrapper.submit"]

\* Form.validate() from its call to its first await.  The keys of the
\* for-in loop are those the form has when the loop starts.
FormValidateCall(wrapper) ==
  IF created = <<>>
  THEN /\ wrapper => FreeSlots # {}
       /\ status' = "idle"
       /\ validationErrors' = NoErrors
       /\ events' = setStatus(status, "validating")
                      \o <<EvFormValidate(FALSE, NoErrors)>>
                      \o setStatus("validating", "idle")
       /\ IF wrapper THEN Spawn(WrapperTask) ELSE Sync
       /\ last' = [op |-> "Form.validate", f |-> "",
                    ret |-> FormValidateResult(FALSE), quiet |-> TRUE,
                    log |-> <<>>]
       /\ UNCHANGED <<created, value, defaultValue, required, validations,
                      errors, submitError, validationMode, instances,
                 signalVars, modelVars>>
  ELSE LET keys == ForInKeys
           r == StartValidate(keys[1], TRUE, NoErrors) IN
       /\ FreeSlots # {}
       /\ status' = "validating"
       /\ errors' = [errors EXCEPT ![keys[1]] = r.errs]
       /\ validationErrors' = r.ve
       /\ events' = setStatus(status, "validating") \o r.evs
       /\ Spawn(FormValidateTask(keys, 1, r, FALSE, wrapper, <<>>))
       /\ last' = Last("Form.validate", "", "pending")
       /\ UNCHANGED <<created, value, defaultValue, required, validations,
                      submitError, validationMode, instances,
                 signalVars, modelVars>>

\* Form.validate() called by a user of the form
FormValidate == FormValidateCall(FALSE)

\* Form.validate continues: the validation its current field awaits settled
FormValidateInner(i) ==
  LET t == tasks[i]
      r == ResumeValidate(t.f, TRUE, t.vi, t.arg, validationErrors) IN
  /\ t.kind = "Form.validate"
  /\ t.vi > 0
  /\ errors' = [errors EXCEPT ![t.f] = r.errs]
  /\ validationErrors' = r.ve
  /\ events' = r.evs
  /\ IF r.thrown THEN Finish(i)
     ELSE IF r.susp
     THEN Continue(i, [t EXCEPT !.vi = r.vi, !.arg = r.arg])
     ELSE Continue(i, [t EXCEPT !.vi = 0, !.inner = r.ret,
                                !.log = @ \o ValidatedNames(r.evs)])
  /\ last' = LastOf(i, "Form.validate", "",
                    IF r.thrown THEN "TypeError" ELSE "pending")
  /\ UNCHANGED <<created, value, defaultValue, required, validations,
                 submitError, status, validationMode, instances,
                 signalVars, modelVars>>

\* variant: a loop that stops at the first field that fails
HasNextField_ShortCircuit(t, failed) == t.ki < Len(t.keys) /\ ~failed

\* the for-in loop of Form.validate goes on to the next key whatever the
\* fields so far returned
HasNextField(t, failed) == t.ki < Len(t.keys)

\* Form.validate continues after `await this.#fields[k]?.validate()`:
\* the next field, or the form-level event and the return
FormValidateOuter(i) ==
  LET t == tasks[i]
      failed == t.failed \/ ~t.inner IN
  /\ t.kind = "Form.validate"
  /\ t.vi = 0
  /\ IF HasNextField(t, failed)
     THEN LET n == t.keys[t.ki + 1]
              r == StartValidate(n, TRUE, validationErrors) IN
          /\ errors' = [errors EXCEPT ![n] = r.errs]
          /\ validationErrors' = r.ve
          /\ events' = r.evs
          /\ Continue(i, FormValidateTask(t.keys, t.ki + 1, r, failed,
                                          t.wrapper, t.log))
          /\ last' = LastOf(i, "Form.validate", "", "pending")
          /\ UNCHANGED status
     ELSE /\ events' = <<EvFormValidate(failed, validationErrors)>>
                         \o setStatus(status, "idle")
          /\ status' = "idle"
          /\ IF t.wrapper THEN Continue(i, WrapperTask) ELSE Finish(i)
          /\ last' = [op |-> "Form.validate", f |-> "",
                       ret |-> FormValidateResult(failed), quiet |-> quiet,
                       log |-> t.log]
          /\ UNCHANGED <<errors, validationErrors>>
  /\ UNCHANGED <<created, value, defaultValue, required, validations,
                 submitError, validationMode, instances,
                 signalVars, modelVars>>

SubmitTask(wrapper) == [kind |-> "Form.submit", wrapper |-> wrapper]

\* `func` is what the submit function did: "pending", "ok" or what it threw
LastSubmit(ret, func, q) ==
  [op |-> "Form.submit", f |-> "", ret |-> ret, quiet |-> q, func |-> func]

\* variant: a catch block that stores what was thrown as it is
CaughtError_Raw(e) == e

\* the submitError Form.submit records when func failed with e
CaughtError(e) == ToError(e)

\* variant: a submit that keeps the error of an earlier submit
SubmitStartError_Kept == submitError

\* `this.#submitError = void 0` at the start of Form.submit
SubmitStartError == Undef

\* Form.submit(func) from its call to `await func(this.toJSON())`;
\* `out` is "pending" or what func throws before returning.  slot is the
\* suspended wrapper call that makes the call, 0 for any other caller.
FormSubmitCall(out, slot) ==
  IF out.t = "pending"
  THEN /\ slot # 0 \/ FreeSlots # {}
       /\ status' = "submitting"
       /\ submitError' = SubmitStartError
       /\ events' = setStatus(status, "submitting") \o <<EvCallback(toJSON)>>
       /\ IF slot = 0 THEN Spawn(SubmitTask(FALSE))
          ELSE Continue(slot, SubmitTask(TRUE))
       /\ last' = LastSubmit("pending", out, IF slot = 0 THEN TRUE ELSE quiet)
       /\ UNCHANGED <<created, value, defaultValue, required, validations,
                      errors, validationErrors, validationMode, instances,
                 signalVars, modelVars>>
  ELSE /\ submitError' = CaughtError(out)
       /\ events' = setStatus(status, "submitting") \o <<EvCallback(toJSON)>>
                      \o <<EvSubmitError(CaughtError(out))>>
                      \o setStatus("submitting", "idle")
       /\ status' = "idle"
       /\ Sync
       /\ last' = LastSubmit("undefined", out, TRUE)
       /\ UNCHANGED <<created, value, defaultValue, required, validations,
                      errors, validationErrors, validationMode, instances,
                 signalVars, modelVars>>

\* Form.submit(func) called by a user of the form
FormSubmit(out) == FormSubmitCall(out, 0)

\* Form.submit continues: the promise of func settled with `out`
FormSubmitSettle(i, out) ==
  LET t == tasks[i] IN
  /\ t.kind = "Form.submit"
  /\ submitError' = IF out.t = "ok" THEN submitError ELSE CaughtError(out)
  /\ events' = (IF out.t = "ok" THEN <<EvSubmitOk>>
                ELSE <<EvSubmitError(CaughtError(out))>>)
                 \o setStatus(status, "idle")
  /\ status' = "idle"
  /\ Finish(i)
  /\ last' = LastSubmit("undefined", out, quiet)
  /\ UNCHANGED <<created, value, defaultValue, required, validations,
                 errors, validationErrors, validationMode, instances,
                 signalVars, modelVars>>

\* variant: a reset that assigns the default without `if (defaultValues)`
ResetDefault_Unguarded(arg, n) ==
  IF arg.given /\ n \in DOMAIN arg.map THEN arg.map[n] ELSE Undef

\* the defaultValue a field has after Form.reset(arg) assigned it
ResetDefault(arg, n) ==
  IF arg.given
  THEN IF n \in DOMAIN arg.map THEN arg.map[n] ELSE Undef
  ELSE defaultValue[n]

\* events of the field loop of Form.reset, in field order
RECURSIVE ResetLoopEvents(_, _)
ResetLoopEvents(names, arg) ==
  IF names = <<>> THEN <<>>
  ELSE LET n == names[1]
           nd == ResetDefault(arg, n) IN
       (IF ~isEqual(value[n], nd)
        THEN EmitChange(n, value[n], nd, "resetting") ELSE <<>>)
       \o <<EvFieldReset(n)>>
       \o ResetLoopEvents(Tail(names), arg)

\* the form-level change event that ends Form.reset (`if (changed)` is
\* commented out in the source)
ResetChangeEvents(changed) == <<EvFormChange>>

\* the subscriptions after the field loop of Form.reset
RECURSIVE ResetLoopSubs(_, _, _)
ResetLoopSubs(names, arg, s) ==
  IF names = <<>> THEN s
  ELSE ResetLoopSubs(Tail(names), arg,
         Resubscribe(s, names[1], value[names[1]],
                     ResetDefault(arg, names[1])))

\* Form.reset(defaultValues?)
FormReset(arg) ==
  LET changed == \E n \in Range(created) :
                    ~isEqual(value[n], ResetDefault(arg, n)) IN
  /\ defaultValue' = [n \in NameSet |->
        IF n \in Range(created) THEN ResetDefault(arg, n) ELSE defaultValue[n]]
  /\ value' = [n \in NameSet |->
        IF n \in Range(created) THEN ResetDefault(arg, n) ELSE value[n]]
  /\ errors' = [n \in NameSet |->
        IF n \in Range(created) THEN <<>> ELSE errors[n]]
  /\ submitError' = Undef
  /\ validationErrors' = NoErrors
  /\ events' = setStatus(status, "resetting")
                 \o ResetLoopEvents(created, arg)
                 \o ResetChangeEvents(changed)
                 \o setStatus("resetting", "idle")
  /\ status' = "idle"
  /\ subs' = ResetLoopSubs(created, arg, subs)
  /\ el' = ElementAfter(ControlledField,
             ControlledField \in Range(created)
               /\ ~isEqual(value[ControlledField],
                           ResetDefault(arg, ControlledField)),
             ResetDefault(arg, ControlledField))
  /\ Sync
  /\ last' = Last("Form.reset", "", "undefined")
  /\ UNCHANGED <<created, required, validations, validationMode, instances,
                 signalVars, standVars, content, ctrl>>

\* Form.clear(): `this.#fields[key]?.set(void 0)` calls a method class
\* Field does not have, so the loop throws a TypeError at the first field
FormClear ==
  /\ submitError' = Undef
  /\ validationErrors' = NoErrors
  /\ IF created = <<>>
     THEN /\ events' = setStatus(status, "clearing")
                         \o setStatus("clearing", "idle")
          /\ status' = "idle"
          /\ last' = Last("Form.clear", "", "undefined")
     ELSE /\ events' = setStatus(status, "clearing")
          /\ status' = "clearing"
          /\ last' = Last("Form.clear", "", "TypeError")
  /\ Sync
  /\ UNCHANGED <<created, value, defaultValue, required, validations,
                 errors, validationMode, instances,
                 signalVars, modelVars>>

(* ----------------------- solid-form2 createForm ---------------------- *)

\* createForm(...).submit(e): validate first when validationMode is
\* "submit", else hand the user's submit to Form.submit straight away
\* (validationMode "none": the program creates no solid-form2 form)
WrapperSubmit ==
  /\ validationMode # "none"
  /\ IF validationMode = "submit"
     THEN FormValidateCall(TRUE)
     ELSE FormSubmitCall([t |-> "pending"], 0)

\* variant: a submit that goes on whatever the validation found
WrapperAborts_Never == FALSE

\* `if (!form.isValid) return;`
WrapperAborts == ~Form_isValid

\* createForm(...).submit continues after `await form.validate()`
WrapperContinue(i) ==
  /\ tasks[i].kind = "wrapper.submit"
  /\ IF WrapperAborts
     THEN /\ Finish(i)
          /\ events' = <<>>
          /\ last' = LastOf(i, "wrapper.submit", "", "undefined")
          /\ UNCHANGED <<created, value, defaultValue, required, validations,
                         errors, validationErrors, submitError, status,
                         validationMode, instances,
                 signalVars, modelVars>>
     ELSE FormSubmitCall([t |-> "pending"], i)

(* ---------------------- signal-based createForm --------------------- *)

\* the program creates no signal-based form
NoStore == [status |-> "none"]
NoFormOptions == [validationEvent |-> "none"]
NoSignalForm == store = NoStore /\ formOptions = NoFormOptions

\* values a caller hands to a signal-based field
SignalValues == {Undef, Str("ab")}

\* `!!value`
Truthy(v) ==
  \/ (v.t = "string" /\ v.s # "")
  \/ (v.t = "number" /\ v.n # 0)
  \/ (v.t = "boolean" /\ v.b)
  \/ v.t \in {"object", "array"}

\* validation.ts required(): its default message and its predicate
Required == [name |-> "required"]
\* validation.ts min(n), max(n)
SignalMin(n) == [name |-> "minimum length", n |-> n]
SignalMax(n) == [name |-> "maximum length", n |-> n]
Message(rule, n) ==
  IF rule.name = "minimum length"
  THEN n \o " should be at least " \o ToString(rule.n)
  ELSE IF rule.name = "maximum length" THEN n \o " is to large"
  ELSE n \o " is " \o rule.name

\* validation.ts getNumber; Object.keys of a boolean, and of the object
\* without own keys that Obj stands for, is empty
getNumber(v) ==
  IF v.t = "string" THEN Len(v.s)
  ELSE IF v.t = "number" THEN v.n
  ELSE IF v.t = "array" THEN v.len
  ELSE 0

RuleHolds(rule, v) ==
  IF rule.name = "minimum length" THEN getNumber(v) >= rule.n
  ELSE IF rule.name = "maximum length" THEN getNumber(v) <= rule.n
  ELSE Truthy(v)

NoValues == [n \in {} |-> Undef]

\* FormOptions of createForm: no default values, field a is required
FormOptions(validationEvent, submitOnError) ==
  [defaultValues |-> NoValues,
   validations |-> ("a" :> <<Required>>),
   validationEvent |-> validationEvent,
   submitOnError |-> submitOnError]

\* field a is required and has a minimum and a maximum of 2; validated on
\* every input
MeasureOptions ==
  [defaultValues |-> NoValues,
   validations |-> ("a" :> <<Required, SignalMin(2), SignalMax(2)>>),
   validationEvent |-> "input",
   submitOnError |-> FALSE]
\* values a caller hands to the field of MeasureOptions
MeasureValues ==
  {Undef, Str(""), Str("ab"), Num(0), Num(2), Num(3), Arr(0), Arr(2), False}

\* `{...old, [k]: v}`
Put(f, k, v) == (k :> v) @@ f

\* `callOrReturn(options.validations)?.[name] ?? []`
ValidationsOf(n) ==
  IF n \in DOMAIN formOptions.validations
  THEN formOptions.validations[n] ELSE <<>>

\* channel.value(): `store.values[name]`
ValueOf(n) == IF n \in DOMAIN store.values THEN store.values[n] ELSE Undef

\* createField.validate: the messages of the validations that reject v
RECURSIVE Messages(_, _, _)
Messages(rules, n, v) ==
  IF rules = <<>> THEN <<>>
  ELSE (IF RuleHolds(rules[1], v) THEN <<>> ELSE <<Message(rules[1], n)>>)
         \o Messages(Tail(rules), n, v)

\* createForm.isValid over a store st
isValidOf(st) ==
  ~ \E n \in DOMAIN st.validationErrors : Len(st.validationErrors[n]) > 0
isValid == isValidOf(store)

\* util.ts toError
toError(err) == IF IsError(err) THEN err ELSE Error(String(err))

\* createForm(options): the store after createComputed(reset) ran once
createForm(options) ==
  /\ formOptions = options
  /\ store = [values |-> options.defaultValues, status |-> "editing",
              dirty |-> FALSE, fields |-> <<>>,
              validationErrors |-> NoErrors, submitError |-> Undef]

\* form.field(name) for a name that has no field yet
createForm_field(n) ==
  /\ store # NoStore
  /\ n \notin Range(store.fields)
  /\ store' = [store EXCEPT !.fields = Append(@, n)]
  /\ Sync
  /\ last' = Last("createForm.field", n, "Field")
  /\ events' = <<>>
  /\ UNCHANGED <<coreVars, formOptions, modelVars>>

\* createField.validate suspended at `await Promise.all(...)`; the
\* validations were called with `arg` before the await
SignalFieldTask(n, arg) ==
  [kind |-> "createField.validate", f |-> n, arg |-> arg]

\* field.setValue(v): createField.setValue over the form's channel
createField_setValue(n, v) ==
  LET event == formOptions.validationEvent
      skip == event = "input" /\ ValueOf(n) = v
      cleared == IF event = "submit"
                 THEN Put(store.validationErrors, n, <<>>)
                 ELSE store.validationErrors
  IN /\ store # NoStore
     /\ n \in Range(store.fields)
     /\ IF skip
        THEN UNCHANGED store /\ Sync
        ELSE /\ store' = [store EXCEPT !.dirty = TRUE,
                                       !.values = Put(@, n, v),
                                       !.validationErrors = cleared]
             /\ IF event = "input"
                THEN FreeSlots # {} /\ Spawn(SignalFieldTask(n, v))
                ELSE Sync
     /\ last' = Last("createField.setValue", n, "undefined")
     /\ events' = <<>>
     /\ UNCHANGED <<coreVars, formOptions, modelVars>>

\* field.validate() called by a user of the field
createField_validate(n) ==
  /\ store # NoStore
  /\ n \in Range(store.fields)
  /\ FreeSlots # {}
  /\ Spawn(SignalFieldTask(n, ValueOf(n)))
  /\ last' = Last("createField.validate", n, "pending")
  /\ events' = <<>>
  /\ UNCHANGED <<coreVars, signalVars, modelVars>>

\* createField.validate continues: setErrors, `return !!errors.length`
createField_validateSettle(i) ==
  LET t == tasks[i]
      errs == Messages(ValidationsOf(t.f), t.f, t.arg) IN
  /\ t.kind = "createField.validate"
  /\ store' = [store EXCEPT !.validationErrors = Put(@, t.f, errs)]
  /\ Finish(i)
  /\ last' = LastOf(i, "createField.validate", t.f, Bool(Len(errs) > 0))
  /\ events' = <<>>
  /\ UNCHANGED <<coreVars, formOptions, modelVars>>

\* createForm.validate suspended in its loop: at pc "field" the validate of
\* field keys[ki] awaits its validations, at pc "loop" the loop awaits that
\* validate.  `submit`: the call was made by submit
SignalFormTask(keys, ki, pc, submit) ==
  [kind |-> "createForm.validate", keys |-> keys, ki |-> ki,
   arg |-> ValueOf(keys[ki]), pc |-> pc, submit |-> submit]

\* createForm.submit suspended: at pc "gate" at `await validate()`, at pc
\* "callback" at `await Promise.resolve(options.submit?.(store.values))`
SignalSubmitTask(pc) == [kind |-> "createForm.submit", pc |-> pc]

\* `func`: what the submit callback of this call did so far
NotCalled == [t |-> "none"]
LastSignalSubmit(ret, func, q) ==
  [op |-> "createForm.submit", f |-> "", ret |-> ret, quiet |-> q,
   func |-> func]

\* form.validate() called by a user of the form
createForm_validate ==
  /\ store # NoStore
  /\ IF store.fields = <<>>
     THEN /\ Sync
          /\ last' = Last("createForm.validate", "", Bool(isValid))
     ELSE /\ FreeSlots # {}
          /\ Spawn(SignalFormTask(store.fields, 1, "field", FALSE))
          /\ last' = Last("createForm.validate", "", "pending")
  /\ events' = <<>>
  /\ UNCHANGED <<coreVars, signalVars, modelVars>>

\* createForm.validate continues: the validations of the current field
\* settled; setErrors
createForm_validateField(i) ==
  LET t == tasks[i]
      n == t.keys[t.ki]
      errs == Messages(ValidationsOf(n), n, t.arg) IN
  /\ t.kind = "createForm.validate"
  /\ t.pc = "field"
  /\ store' = [store EXCEPT !.validationErrors = Put(@, n, errs)]
  /\ Continue(i, [t EXCEPT !.pc = "loop"])
  /\ last' = LastOf(i, IF t.submit THEN "createForm.submit"
                       ELSE "createForm.validate", "", "pending")
  /\ events' = <<>>
  /\ UNCHANGED <<coreVars, formOptions, modelVars>>

\* createForm.validate continues after `await ...validate()`: the next
\* field, or `return untrack(isValid)`
createForm_validateLoop(i) ==
  LET t == tasks[i] IN
  /\ t.kind = "createForm.validate"
  /\ t.pc = "loop"
  /\ IF t.ki < Len(t.keys)
     THEN /\ Continue(i, SignalFormTask(t.keys, t.ki + 1, "field", t.submit))
          /\ last' = LastOf(i, IF t.submit THEN "createForm.submit"
                               ELSE "createForm.validate", "", "pending")
     ELSE IF t.submit
     THEN /\ Continue(i, SignalSubmitTask("gate"))
          /\ last' = LastSignalSubmit("pending", NotCalled, quiet)
     ELSE /\ Finish(i)
          /\ last' = LastOf(i, "createForm.validate", "", Bool(isValid))
  /\ events' = <<>>
  /\ UNCHANGED <<coreVars, signalVars, modelVars>>

\* `if (!callOrReturn(options.submitOnError) && !isValid()) return;`
SubmitAborts(st) == ~formOptions.submitOnError /\ ~isValidOf(st)

\* createForm.submit from the check of isValid on: st is the store when the
\* check runs, slot the suspended call that runs it (0: submit was called
\* in this segment), out what the callback does when it is called
SubmitFromGate(slot, st, out) ==
  LET q == IF slot = 0 THEN TRUE ELSE quiet IN
  IF SubmitAborts(st)
  THEN /\ store' = st
       /\ IF slot = 0 THEN Sync ELSE Finish(slot)
       /\ events' = <<>>
       /\ last' = LastSignalSubmit("undefined", NotCalled, q)
  ELSE IF out.t = "pending"
  THEN /\ slot = 0 => FreeSlots # {}
       /\ store' = [st EXCEPT !.status = "submitting"]
       /\ IF slot = 0 THEN Spawn(SignalSubmitTask("callback"))
          ELSE Continue(slot, SignalSubmitTask("callback"))
       /\ events' = <<EvCallback(st.values)>>
       /\ last' = LastSignalSubmit("pending", out, q)
  ELSE /\ store' = [st EXCEPT !.status = "failed",
                              !.submitError = toError(out)]
       /\ IF slot = 0 THEN Sync ELSE Finish(slot)
       /\ events' = <<EvCallback(st.values)>>
       /\ last' = LastSignalSubmit("undefined", out, q)

\* form.submit(e) called by a user of the form
createForm_submit(out) ==
  LET st == [store EXCEPT !.submitError = Undef] IN
  /\ store # NoStore
  /\ IF formOptions.validationEvent = "submit"
     THEN /\ FreeSlots # {}
          /\ store' = st
          /\ Spawn(IF store.fields = <<>> THEN SignalSubmitTask("gate")
                   ELSE SignalFormTask(store.fields, 1, "field", TRUE))
          /\ events' = <<>>
          /\ last' = LastSignalSubmit("pending", NotCalled, TRUE)
     ELSE SubmitFromGate(0, st, out)
  /\ UNCHANGED <<coreVars, formOptions, modelVars>>

\* createForm.submit continues after `await validate()`
createForm_submitGate(i, out) ==
  /\ tasks[i].kind = "createForm.submit"
  /\ tasks[i].pc = "gate"
  /\ SubmitFromGate(i, store, out)
  /\ UNCHANGED <<coreVars, formOptions, modelVars>>

\* createForm.submit continues: the promise of the callback settled
createForm_submitSettle(i, out) ==
  /\ tasks[i].kind = "createForm.submit"
  /\ tasks[i].pc = "callback"
  /\ store' = IF out.t = "ok"
              THEN [store EXCEPT !.status = "editing", !.dirty = FALSE]
              ELSE [store EXCEPT !.status = "failed",
                                 !.submitError = toError(out)]
  /\ Finish(i)
  /\ events' = <<>>
  /\ last' = LastSignalSubmit("undefined", out, quiet)
  /\ UNCHANGED <<coreVars, formOptions, modelVars>>

\* form.reset()
createForm_reset ==
  /\ store # NoStore
  /\ store' = [store EXCEPT !.values = formOptions.defaultValues,
                            !.dirty = FALSE,
                            !.validationErrors = NoErrors,
                            !.submitError = Undef,
                            !.status = "editing"]
  /\ Sync
  /\ last' = Last("createForm.reset", "", "undefined")
  /\ events' = <<>>
  /\ UNCHANGED <<coreVars, formOptions, modelVars>>

\* form.clear()
createForm_clear ==
  /\ store # NoStore
  /\ store' = [store EXCEPT !.values = NoValues,
                            !.dirty = FALSE,
                            !.validationErrors = NoErrors,
                            !.submitError = Undef,
                            !.status = "editing"]
  /\ Sync
  /\ last' = Last("createForm.clear", "", "undefined")
  /\ events' = <<>>
  /\ UNCHANGED <<coreVars, formOptions, modelVars>>

\* form.clearErrors()
createForm_clearErrors ==
  /\ store # NoStore
  /\ store' = [store EXCEPT !.validationErrors = NoErrors,
                            !.submitError = Undef,
                            !.status = "editing"]
  /\ Sync
  /\ last' = Last("createForm.clearErrors", "", "undefined")
  /\ events' = <<>>
  /\ UNCHANGED <<coreVars, formOptions, modelVars>>

(* --------------------------- EventEmitter ---------------------------- *)

EventSet == {"ping", "message"}
Payloads == {[value |-> 1], [value |-> 2]}

\* listener functions, told apart by id; `act` is what the function does
\* with the emitter, for the event it is called for, when it is invoked:
\* nothing, off(event, target) or on(event, target)
Handler(id, act, target) == [id |-> id, act |-> act, target |-> target]
Plain == Handler("plain", "none", "plain")
Late == Handler("late", "none", "late")
Leaver == Handler("leaver", "off", "leaver")
Remover == Handler("remover", "off", "late")
Adder == Handler("adder", "on", "late")
Handlers == {Plain, Late, Leaver, Remover, Adder}
ById(id) == CHOOSE h \in Handlers : h.id = id

\* `new EventEmitter()`: no listeners for any event
NoListeners == [e \in EventSet |-> <<>>]
Registered == Len(listeners["ping"]) + Len(listeners["message"])

\* `this.listeners[event]!.filter((l) => l !== listener)`
FilterOut(ls, h) == SelectSeq(ls, LAMBDA l : l # h)

Call(h, e, p) == [h |-> h.id, event |-> e, payload |-> p]

\* variant: an off that removes the listener from the array in place, under
\* the loop that iterates it
RECURSIVE EmitLoop_InPlace(_, _, _, _, _, _, _)
EmitLoop_InPlace(iter, cur, same, i, done, e, p) ==
  IF i > Len(cur) THEN [listeners |-> cur, calls |-> done]
  ELSE LET h == cur[i]
           called == Append(done, Call(h, e, p))
       IN IF h.act = "off"
          THEN EmitLoop_InPlace(iter, FilterOut(cur, ById(h.target)), same,
                                i + 1, called, e, p)
          ELSE IF h.act = "on"
          THEN EmitLoop_InPlace(iter, Append(cur, ById(h.target)), same,
                                i + 1, called, e, p)
          ELSE EmitLoop_InPlace(iter, cur, same, i + 1, called, e, p)

\* the for-of loop of emit over the array `iter` from position i on.  `cur`
\* is this.listeners[event]; `same` tells whether it still is the array the
\* loop iterates: off replaces it by a filtered copy, on pushes onto it
RECURSIVE EmitLoop(_, _, _, _, _, _, _)
EmitLoop(iter, cur, same, i, done, e, p) ==
  IF i > Len(iter) THEN [listeners |-> cur, calls |-> done]
  ELSE LET h == iter[i]
           called == Append(done, Call(h, e, p))
       IN IF h.act = "off"
          THEN EmitLoop(iter, FilterOut(cur, ById(h.target)), FALSE, i + 1,
                        called, e, p)
          ELSE IF h.act = "on"
          THEN LET pushed == Append(cur, ById(h.target))
               IN EmitLoop(IF same THEN pushed ELSE iter, pushed, same,
                           i + 1, called, e, p)
          ELSE EmitLoop(iter, cur, same, i + 1, called, e, p)

\* emitter.on(event, listener), also through a form or a list
EmitterOn(e, h) ==
  /\ Registered < MaxListeners
  /\ listeners' = [listeners EXCEPT ![e] = Append(@, h)]
  /\ calls' = <<>>
  /\ Sync
  /\ last' = Last("EventEmitter.on", e, "Subscription")
  /\ events' = <<>>
  /\ UNCHANGED <<coreVars, signalVars, items, boxVars, domVars>>

\* emitter.off(event, listener), also through the subscription on returned
EmitterOff(e, h) ==
  /\ listeners' = [listeners EXCEPT ![e] = FilterOut(@, h)]
  /\ calls' = <<>>
  /\ Sync
  /\ last' = Last("EventEmitter.off", e, "undefined")
  /\ events' = <<>>
  /\ UNCHANGED <<coreVars, signalVars, items, boxVars, domVars>>

\* emitter.emit(event, payload), with everything its listeners do
EmitterEmit(e, p) ==
  LET r == EmitLoop(listeners[e], listeners[e], TRUE, 1, <<>>, e, p) IN
  /\ Registered - Len(listeners[e]) + Len(r.listeners) <= MaxListeners
  /\ listeners' = [listeners EXCEPT ![e] = r.listeners]
  /\ calls' = r.calls
  /\ Sync
  /\ last' = [op |-> "EventEmitter.emit", f |-> e, ret |-> "undefined",
              quiet |-> TRUE, payload |-> p, before |-> listeners[e]]
  /\ events' = <<>>
  /\ UNCHANGED <<coreVars, signalVars, items, boxVars, domVars>>

(* --------------------------- ObservableList -------------------------- *)

ItemSet == {"x", "y"}
Indices == -1 .. MaxItems

\* the list's `change` event, emitted through its #emitter
EvListChange(type) == [on |-> "list", ev |-> "change", type |-> type]

LastList(op, index, ret, before) ==
  [op |-> op, f |-> "", ret |-> ret, quiet |-> TRUE, index |-> index,
   before |-> before]

\* `this.#values[index]`
At(index) ==
  IF index >= 0 /\ index < Len(items) THEN items[index + 1] ELSE "undefined"

\* `this.#values[index] = value`: an index equal to the length appends; a
\* negative index sets a property and leaves the elements alone
SetAt(index, v) ==
  IF index >= 0 /\ index < Len(items) THEN [items EXCEPT ![index + 1] = v]
  ELSE IF index = Len(items) THEN Append(items, v)
  ELSE items

\* `this.#values.splice(index, 1)`: a negative index counts from the end,
\* an index past the end removes nothing
Splice(index) ==
  LET start == IF index < 0 THEN (IF Len(items) + index < 0 THEN 0
                                  ELSE Len(items) + index)
               ELSE index
  IN [removed |-> IF start < Len(items) THEN items[start + 1]
                  ELSE "undefined",
      rest |-> SubSeq(items, 1, start) \o SubSeq(items, start + 2, Len(items))]

\* variant: a check that lets every index through
InvalidIndex_Never(index) == FALSE

\* `index >= this.#values.length || index < 0`
InvalidIndex(index) == index >= Len(items) \/ index < 0

\* list.insert(index, value): replaces the item at index
ListInsert(index, v) ==
  /\ IF InvalidIndex(index)
     THEN /\ UNCHANGED items
          /\ events' = <<>>
          /\ last' = LastList("ObservableList.insert", index, "RangeError",
                              items)
     ELSE /\ items' = SetAt(index, v)
          /\ events' = IF At(index) # v
                       THEN <<EvListChange("insert")>> ELSE <<>>
          /\ last' = LastList("ObservableList.insert", index, "undefined",
                              items)
  /\ Sync
  /\ UNCHANGED <<coreVars, signalVars, listeners, calls, boxVars, domVars>>

\* list.push(value)
ListPush(v) ==
  /\ Len(items) < MaxItems
  /\ items' = Append(items, v)
  /\ events' = <<EvListChange("push")>>
  /\ last' = LastList("ObservableList.push", Len(items), "undefined", items)
  /\ Sync
  /\ UNCHANGED <<coreVars, signalVars, listeners, calls, boxVars, domVars>>

\* list.pop()
ListPop ==
  /\ items' = IF items = <<>> THEN <<>> ELSE SubSeq(items, 1, Len(items) - 1)
  /\ events' = <<EvListChange("pop")>>
  /\ last' = LastList("ObservableList.pop", Len(items) - 1,
                      IF items = <<>> THEN "undefined" ELSE items[Len(items)],
                      items)
  /\ Sync
  /\ UNCHANGED <<coreVars, signalVars, listeners, calls, boxVars, domVars>>

\* list.remove(index)
ListRemove(index) ==
  /\ IF InvalidIndex(index)
     THEN /\ UNCHANGED items
          /\ events' = <<>>
          /\ last' = LastList("ObservableList.remove", index, "RangeError",
                              items)
     ELSE /\ items' = Splice(index).rest
          /\ events' = <<EvListChange("remove")>>
          /\ last' = LastList("ObservableList.remove", index,
                              Splice(index).removed, items)
  /\ Sync
  /\ UNCHANGED <<coreVars, signalVars, listeners, calls, boxVars, domVars>>

\* a new EventEmitter and a new ObservableList()
\* the events of the `change` listeners of Model c, one call of
\* #onValueChange per registration, fields taken in creation order
RECURSIVE OnValueChange(_, _)
OnValueChange(names, c) ==
  IF names = <<>> THEN <<>>
  ELSE Repeat(EmitChange(names[1], Undef, value[names[1]], status),
              subs[c][names[1]])
       \o OnValueChange(Tail(names), c)

\* Model.set(field, v) on Model c, called by whoever holds the Model
ModelSet(c, v) ==
  LET trigger == content[c] # v IN
  /\ content' = [content EXCEPT ![c] = v]
  /\ events' = IF trigger THEN OnValueChange(created, c) ELSE <<>>
  /\ el' = ElementAfter(ControlledField,
             trigger /\ ControlledField \in Range(created)
               /\ subs[c][ControlledField] > 0,
             value[ControlledField])
  /\ Sync
  /\ last' = [op |-> "Model.set", f |-> "", ret |-> Bool(trigger),
               quiet |-> TRUE, model |-> c]
  /\ UNCHANGED <<coreVars, signalVars, standVars, subs, ctrl>>

\* no InputController has been constructed
NoController == [mode |-> "none", listening |-> FALSE, subs |-> 0]

\* a new emitter, a new list, Models nobody has subscribed to
NewObjects ==
  /\ listeners = NoListeners
  /\ calls = <<>>
  /\ items = <<>>
  /\ subs = [c \in ModelIds |-> [n \in NameSet |-> 0]]
  /\ content = [c \in ModelIds |-> 0]

NewModelObjects ==
  /\ NewObjects
  /\ ctrl = NoController
  /\ el = Str("")

(* --------------------------- specifications -------------------------- *)

FuncOutcomes == {[t |-> "ok"]} \cup Thrown
Pending == [t |-> "pending"]

\* Spec: a form of one required field with two rules; every operation of
\* Field and Form
Init ==
  /\ Constructed(OptionsOne)
  /\ NewModelObjects
  /\ validationMode = "change"
  /\ NoSignalForm

Next ==
  \/ \E n \in NameSet, v \in Values : SetValue(n, v)
  \/ \E n \in NameSet : FieldReset(n)
  \/ \E n \in NameSet, trigger \in BOOLEAN : FieldValidate(n, trigger)
  \/ \E i \in Slots : FieldValidateResume(i)
  \/ FormValidate
  \/ \E i \in Slots : FormValidateInner(i)
  \/ \E i \in Slots : FormValidateOuter(i)
  \/ \E out \in {Pending} \cup Thrown : FormSubmit(out)
  \/ \E i \in Slots, out \in FuncOutcomes : FormSubmitSettle(i, out)
  \/ \E arg \in ResetArgs : FormReset(arg)
  \/ FormClear

Spec == Init /\ [][Next]_vars


\* SpecField: the one field of a form, its setter, reset and validation,
\* and the form's validation pass over it
InitField ==
  /\ Constructed(OptionsOne)
  /\ NewModelObjects
  /\ validationMode = "change"
  /\ NoSignalForm

NextField ==
  \/ \E v \in Values : SetValue("a", v)
  \/ FieldReset("a")
  \/ \E trigger \in BOOLEAN : FieldValidate("a", trigger)
  \/ \E i \in Slots : FieldValidateResume(i)
  \/ FormValidate
  \/ \E i \in Slots : FormValidateInner(i)
  \/ \E i \in Slots : FormValidateOuter(i)

SpecField == InitField /\ [][NextField]_vars


\* SpecValidate: a form of two required fields; values are set and the
\* form is validated
InitValidate ==
  /\ Constructed(OptionsTwo)
  /\ NewModelObjects
  /\ validationMode = "change"
  /\ NoSignalForm

NextValidate ==
  \/ \E n \in NameSet, v \in Values : SetValue(n, v)
  \/ FormValidate
  \/ \E i \in Slots : FormValidateInner(i)
  \/ \E i \in Slots : FormValidateOuter(i)

SpecValidate == InitValidate /\ [][NextValidate]_vars

\* SpecSubmit: a form with default values; values are set, the form is
\* submitted, reset and cleared
InitSubmit ==
  /\ Constructed(OptionsDefaults)
  /\ NewModelObjects
  /\ validationMode = "change"
  /\ NoSignalForm

NextSubmit ==
  \/ \E n \in NameSet, v \in Values : SetValue(n, v)
  \/ \E out \in {Pending} \cup Thrown : FormSubmit(out)
  \/ \E i \in Slots, out \in FuncOutcomes : FormSubmitSettle(i, out)
  \/ \E arg \in ResetArgs : FormReset(arg)
  \/ FormClear

SpecSubmit == InitSubmit /\ [][NextSubmit]_vars

\* SpecRoundTrip: a form with default values; field values are set,
\* validated and reset, and the form is reset without arguments
InitRoundTrip ==
  /\ Constructed(OptionsDefaults)
  /\ NewModelObjects
  /\ validationMode = "change"
  /\ NoSignalForm

NextRoundTrip ==
  \/ \E n \in NameSet, v \in Values : SetValue(n, v)
  \/ \E n \in NameSet : FieldReset(n)
  \/ \E n \in NameSet : FieldValidate(n, TRUE)
  \/ FormReset(NoArg)

SpecRoundTrip == InitRoundTrip /\ [][NextRoundTrip]_vars

\* SpecAccess: a form with one configured field and one created on first
\* access, Form.field interleaved with the fields' and the form's
\* operations
InitAccess ==
  /\ Constructed(OptionsBoth)
  /\ NewModelObjects
  /\ validationMode = "change"
  /\ NoSignalForm

NextAccess ==
  \/ \E n \in NameSet : FieldAccess(n)
  \/ \E n \in NameSet, v \in Values : SetValue(n, v)
  \/ \E n \in NameSet : FieldReset(n)
  \/ \E n \in NameSet : FieldValidate(n, TRUE)
  \/ \E arg \in ResetArgs : FormReset(arg)

SpecAccess == InitAccess /\ [][NextAccess]_vars


\* SpecFlags: two required fields under every operation that writes a
\* value, a default value or an error list
InitFlags ==
  /\ Constructed(OptionsTwo)
  /\ NewModelObjects
  /\ validationMode = "change"
  /\ NoSignalForm

NextFlags ==
  \/ \E n \in NameSet, v \in Values \ {Obj} : SetValue(n, v)
  \/ \E n \in NameSet : FieldReset(n)
  \/ \E n \in NameSet : FieldValidate(n, TRUE)
  \/ \E i \in Slots : FieldValidateResume(i)
  \/ \E arg \in ResetArgs : FormReset(arg)
  \/ FormClear
  \/ FormSubmit(Pending)
  \/ \E i \in Slots, out \in FuncOutcomes : FormSubmitSettle(i, out)

SpecFlags == InitFlags /\ [][NextFlags]_vars


\* SpecContainer: a field constructed with a Model as its value; the value
\* is replaced and reset, and the Models are mutated
OptionsContainer ==
  [fields |-> <<>>, defaultValues |-> <<Default("a", Model(1))>>]
ContainerValues == {Undef, Model(1), Model(2)}
ContainerResetArgs == {NoArg, Partial("a" :> Model(2))}

InitContainer ==
  /\ Constructed(OptionsContainer)
  /\ NewModelObjects
  /\ validationMode = "change"
  /\ NoSignalForm

NextContainer ==
  \/ \E v \in ContainerValues : SetValue("a", v)
  \/ FieldReset("a")
  \/ \E arg \in ContainerResetArgs : FormReset(arg)
  \/ \E c \in ModelIds, v \in 0..1 : ModelSet(c, v)

SpecContainer == InitContainer /\ [][NextContainer]_vars

\* SpecController: an InputController of either mode on the one field of
\* a form; the element is typed into and blurred, the controller enabled
\* and disabled, the field set by the program
InitController ==
  /\ Constructed(OptionsOne)
  /\ NewObjects
  /\ \E mode \in ValidateModes : ControllerBuilt(mode)
  /\ validationMode = "change"
  /\ NoSignalForm

NextController ==
  \/ ControllerEnable
  \/ ControllerDisable
  \/ \E v \in Typed : ElementInput(v)
  \/ ElementBlur
  \/ \E v \in {Str("ab"), Str("abcd")} : SetValue(ControlledField, v)
  \/ \E i \in Slots : FieldValidateResume(i)

SpecController == InitController /\ [][NextController]_vars

\* SpecRapidInput: the field changes only through the element of a
\* controller, which in mode "change" calls validate() on every input
InitRapidInput == InitController

NextRapidInput ==
  \/ ControllerEnable
  \/ ControllerDisable
  \/ \E v \in Typed : ElementInput(v)
  \/ ElementBlur
  \/ \E i \in Slots : FieldValidateResume(i)

SpecRapidInput == InitRapidInput /\ [][NextRapidInput]_vars

\* SpecReentrant: submit() and validate() called at any time, also while
\* an earlier call is suspended
InitReentrant ==
  /\ Constructed(OptionsTwo)
  /\ NewModelObjects
  /\ validationMode = "change"
  /\ NoSignalForm

NextReentrant ==
  \/ \E n \in NameSet, v \in {Undef, Str("ab")} : SetValue(n, v)
  \/ \E out \in {Pending} \cup Thrown : FormSubmit(out)
  \/ \E i \in Slots, out \in FuncOutcomes : FormSubmitSettle(i, out)
  \/ FormValidate
  \/ \E i \in Slots : FormValidateInner(i)
  \/ \E i \in Slots : FormValidateOuter(i)

SpecReentrant == InitReentrant /\ [][NextReentrant]_vars

\* SpecStatus: field values are set and reset while the form is idle and
\* while a validation pass, a submit, or a failed clear holds the status
InitStatus ==
  /\ Constructed(OptionsTwo)
  /\ NewModelObjects
  /\ validationMode = "change"
  /\ NoSignalForm

NextStatus ==
  \/ \E n \in NameSet, v \in {Undef, Str("ab")} : SetValue(n, v)
  \/ \E n \in NameSet : FieldReset(n)
  \/ FormValidate
  \/ \E i \in Slots : FormValidateInner(i)
  \/ \E i \in Slots : FormValidateOuter(i)
  \/ FormSubmit(Pending)
  \/ \E i \in Slots, out \in FuncOutcomes : FormSubmitSettle(i, out)
  \/ \E arg \in ResetArgs : FormReset(arg)
  \/ FormClear

SpecStatus == InitStatus /\ [][NextStatus]_vars

\* SpecRules: Field.validate over empty, falsy and failing values of an
\* optional or a required field
InitRules ==
  /\ \E req \in BOOLEAN : Constructed(OptionsRules(req))
  /\ NewModelObjects
  /\ validationMode = "change"
  /\ NoSignalForm

NextRules ==
  \/ \E v \in RuleValues : SetValue("a", v)
  \/ \E trigger \in BOOLEAN : FieldValidate("a", trigger)
  \/ \E i \in Slots : FieldValidateResume(i)

SpecRules == InitRules /\ [][NextRules]_vars


\* SpecEmitter: a stand-alone EventEmitter with listeners that leave, remove
\* and add listeners while they are invoked
InitEmitter ==
  /\ Constructed(OptionsEmpty)
  /\ NewModelObjects
  /\ validationMode = "none"
  /\ NoSignalForm

NextEmitter ==
  \/ \E e \in EventSet, h \in Handlers : EmitterOn(e, h)
  \/ \E e \in EventSet, h \in Handlers : EmitterOff(e, h)
  \/ \E e \in EventSet, p \in Payloads : EmitterEmit(e, p)

SpecEmitter == InitEmitter /\ [][NextEmitter]_vars

\* SpecList: a stand-alone ObservableList under insert, push, pop and
\* remove with indices inside and outside the list
InitList ==
  /\ Constructed(OptionsEmpty)
  /\ NewModelObjects
  /\ validationMode = "none"
  /\ NoSignalForm

NextList ==
  \/ \E index \in Indices, v \in ItemSet : ListInsert(index, v)
  \/ \E v \in ItemSet : ListPush(v)
  \/ ListPop
  \/ \E index \in Indices : ListRemove(index)

SpecList == InitList /\ [][NextList]_vars

\* SpecMeasure: the validations of a signal-based field over values of
\* every measurable and unmeasurable kind
InitMeasure ==
  /\ Constructed(OptionsEmpty)
  /\ NewModelObjects
  /\ validationMode = "none"
  /\ createForm(MeasureOptions)

NextMeasure ==
  \/ createForm_field("a")
  \/ \E v \in MeasureValues : createField_setValue("a", v)
  \/ createField_validate("a")
  \/ \E i \in Slots : createField_validateSettle(i)
  \/ createForm_clear

SpecMeasure == InitMeasure /\ [][NextMeasure]_vars

\* SpecSignal: the signal-based form with a required field a and a field
\* b, under each validation policy, with and without submit-on-error
InitSignal ==
  /\ Constructed(OptionsEmpty)
  /\ NewModelObjects
  /\ validationMode = "none"
  /\ \E ev \in {"input", "submit"}, soe \in BOOLEAN :
       createForm(FormOptions(ev, soe))

NextSignal ==
  \/ \E n \in NameSet : createForm_field(n)
  \/ \E n \in NameSet, v \in SignalValues : createField_setValue(n, v)
  \/ \E n \in NameSet : createField_validate(n)
  \/ \E i \in Slots : createField_validateSettle(i)
  \/ createForm_validate
  \/ \E i \in Slots : createForm_validateField(i)
  \/ \E i \in Slots : createForm_validateLoop(i)
  \/ \E out \in {Pending} \cup Thrown : createForm_submit(out)
  \/ \E i \in Slots, out \in {Pending} \cup Thrown : createForm_submitGate(i, out)
  \/ \E i \in Slots, out \in FuncOutcomes : createForm_submitSettle(i, out)
  \/ createForm_reset
  \/ createForm_clear
  \/ createForm_clearErrors

SpecSignal == InitSignal /\ [][NextSignal]_vars

\* SpecGate: a form that validates before it submits: the solid-form2 form
\* over a core form of two required fields, or the signal-based form
InitWrapper ==
  /\ Constructed(OptionsTwo)
  /\ NewModelObjects
  /\ validationMode \in {"change", "submit"}
  /\ NoSignalForm

NextWrapper ==
  \/ \E n \in NameSet, v \in Values : SetValue(n, v)
  \/ WrapperSubmit
  \/ \E i \in Slots : FormValidateInner(i)
  \/ \E i \in Slots : FormValidateOuter(i)
  \/ \E i \in Slots : WrapperContinue(i)
  \/ \E i \in Slots, out \in FuncOutcomes : FormSubmitSettle(i, out)

InitSignalGate ==
  /\ Constructed(OptionsEmpty)
  /\ NewModelObjects
  /\ validationMode = "none"
  /\ \E soe \in BOOLEAN : createForm(FormOptions("submit", soe))

NextSignalGate ==
  \/ \E n \in NameSet : createForm_field(n)
  \/ \E n \in NameSet, v \in SignalValues : createField_setValue(n, v)
  \/ \E i \in Slots : createForm_validateField(i)
  \/ \E i \in Slots : createForm_validateLoop(i)
  \/ \E out \in {Pending} \cup Thrown : createForm_submit(out)
  \/ \E i \in Slots, out \in {Pending} \cup Thrown : createForm_submitGate(i, out)
  \/ \E i \in Slots, out \in FuncOutcomes : createForm_submitSettle(i, out)

InitGate == InitWrapper \/ InitSignalGate

NextGate == NextWrapper \/ NextSignalGate

SpecGate == InitGate /\ [][NextGate]_vars

(* ---------------------------- properties ---------------------------- *)

\* the errors of the rules that reject v, in rule order
RECURSIVE RuleErrors(_, _)
RuleErrors(rules, v) ==
  IF rules = <<>> THEN <<>>
  ELSE LET out == Validate(rules[1], v) IN
       (IF out.t = "ValidationError" THEN <<out>> ELSE <<>>)
         \o RuleErrors(Tail(rules), v)

\* what an undisturbed Field.validate finds for the field's current value
ErrorsOf(n) ==
  IF IsEmptyValue(value[n])
  THEN IF required[n] THEN <<ValidationError("Required")>> ELSE <<>>
  ELSE RuleErrors(validations[n], value[n])

\* the last segment ended a Form.validate() call that no other call disturbed
ValidateCompleted ==
  /\ last.op = "Form.validate"
  /\ last.ret \notin {"pending", "TypeError"}
  /\ last.quiet

HasEvent(e) == \E k \in 1..Len(events) : events[k] = e

\* C1: when Field.setValue(v) changes the value, the field has no errors
\* and is valid as soon as the call returns, whatever an earlier validate
\* recorded.
C1_SetValueClearsErrors ==
  (last.op = "Field.setValue" /\ last.ret = "true") =>
    (errors[last.f] = <<>> /\ Field_isValid(last.f))

\* C1 witness: setValue changed the value of a field whose earlier
\* validation had recorded errors (the form's cache still shows them)
C1_Witness ==
  /\ last.op = "Field.setValue"
  /\ last.ret = "true"
  /\ last.f \in DOMAIN validationErrors
  /\ validationErrors[last.f] # <<>>
  /\ errors[last.f] = <<>>

\* C2 (as stated): whenever no call is suspended, validationErrors has an
\* entry for a field exactly when the field has errors, and the entry holds
\* the field's errors.
C2_CacheMirrorsErrors ==
  InFlight = {} =>
    \A n \in Range(created) :
      /\ (n \in DOMAIN validationErrors) <=> (errors[n] # <<>>)
      /\ (n \in DOMAIN validationErrors) => validationErrors[n] = errors[n]

\* C3 (as stated): a Form.validate() call that completes resolves to the
\* form's validity, true or false.
C3_ValidateResolvesValidity ==
  (last.op = "Form.validate" /\ last.ret \notin {"pending", "TypeError"}) =>
    last.ret = Bool(Form_isValid)

\* C4 (as stated): once no operation is running, status is 'idle', also
\* when the last operation ended with an internal error.
C4_StatusIdleAtRest ==
  InFlight = {} => status = "idle"

\* C5: a completed Form.validate() has validated every field: each field
\* whose value fails has its errors recorded, is invalid, has its errors in
\* validationErrors, and the form-level validate event is 'invalid' and
\* carries them.
C5_ValidateAllFields ==
  ValidateCompleted =>
    \A n \in Range(created) :
      ErrorsOf(n) # <<>> =>
        /\ errors[n] = ErrorsOf(n)
        /\ ~Field_isValid(n)
        /\ n \in DOMAIN validationErrors
        /\ validationErrors[n] = errors[n]
        /\ HasEvent(EvFormValidate(TRUE, validationErrors))

\* C5 witness: Form.validate() completed on a form whose two fields both
\* fail, the first by a rule and the second by being required
C5_Witness ==
  /\ ValidateCompleted
  /\ Len(created) = 2
  /\ \A n \in Range(created) : ErrorsOf(n) # <<>>
  /\ ~IsEmptyValue(value[created[1]])
  /\ IsEmptyValue(value[created[2]])
  /\ DOMAIN validationErrors = Range(created)

\* C6: a new form is valid; once Form.validate() completed, a required
\* field that is empty makes the form invalid and has an entry in
\* validationErrors, and a field set to a value that passes is valid and has
\* no entry; the form is valid when every field passes.
C6_RequiredFieldLifecycle ==
  /\ last.op = "new Form" => Form_isValid
  /\ ValidateCompleted =>
       /\ \A n \in Range(created) :
            /\ (required[n] /\ IsEmptyValue(value[n])) =>
                 (~Form_isValid /\ n \in DOMAIN validationErrors
                    /\ validationErrors[n] # <<>>)
            /\ (~IsEmptyValue(value[n]) /\ ErrorsOf(n) = <<>>) =>
                 (Field_isValid(n) /\ n \notin DOMAIN validationErrors)
       /\ (\A n \in Range(created) : ErrorsOf(n) = <<>>) => Form_isValid

\* C6 witness: Form.validate() completed after the required fields were
\* given values that pass: the form is valid and has no entry
C6_Witness ==
  /\ ValidateCompleted
  /\ \A n \in Range(created) :
       required[n] /\ ~IsEmptyValue(value[n]) /\ value[n] # defaultValue[n]
  /\ Form_isValid
  /\ validationErrors = NoErrors

\* the calls of the caller-supplied submit function in the last segment
Callbacks == {k \in 1..Len(events) : events[k].on = "user"}

\* what an undisturbed createField.validate finds for the current value
SignalErrorsOf(n) == Messages(ValidationsOf(n), n, ValueOf(n))

C8_SubmitCapturesFailure ==
  (last.op = "Form.submit" /\ last.ret # "pending" /\ last.func.t # "ok") =>
    /\ last.ret = "undefined"
    /\ IsError(submitError)
    /\ submitError =
         (IF IsError(last.func) THEN last.func ELSE Error(String(last.func)))
    /\ HasEvent(EvSubmitError(submitError))

\* C8 witness: func rejected with a string after the call had suspended
C8_Witness ==
  /\ last.op = "Form.submit"
  /\ last.ret = "undefined"
  /\ last.func = Str("oops")
  /\ submitError = Error("oops")
  /\ ~HasEvent(EvCallback(toJSON))

\* C10 (as stated): after a submit whose callback resolved, status is
\* 'idle' and the form is not dirty.
C10_SubmitClearsDirty ==
  (last.op = "Form.submit" /\ last.ret = "undefined" /\ last.func.t = "ok") =>
    (status = "idle" /\ ~Form_isDirty)

\* C9 (as stated): a submit whose callback failed leaves status 'failed'
\* and submitError recorded; a later submit, reset or clear that has
\* returned leaves status other than 'failed' unless the callback failed
\* again.
C9_FailedUntilNextSubmit ==
  /\ (last.op = "createForm.submit" /\ last.ret = "undefined"
        /\ last.func.t \notin {"none", "ok"}) =>
       (store.status = "failed" /\ store.submitError = toError(last.func))
  /\ (last.op = "createForm.submit" /\ last.ret = "undefined"
        /\ last.func.t \in {"none", "ok"} /\ last.quiet) =>
       store.status # "failed"
  /\ last.op \in {"createForm.reset", "createForm.clear"} =>
       store.status # "failed"

DefaultSnapshot ==
  [n \in Range(ConstructorOrder(OptionsDefaults)) |->
     Lookup(OptionsDefaults.defaultValues, n)]

\* C12: on a form built from default values, after any field value
\* mutations, reset() makes toJSON() the original default snapshot, every
\* field's value its defaultValue, and the form not dirty.
C12_ResetRoundTrip ==
  last.op = "Form.reset" =>
    /\ toJSON = DefaultSnapshot
    /\ \A n \in Range(created) : value[n] = defaultValue[n]
    /\ ~Form_isDirty

\* C12 witness: the reset restored field a, whose value had been changed
C12_Witness ==
  /\ last.op = "Form.reset"
  /\ \E prev \in Values : HasEvent(EvFieldChange("a", prev, Str("ab")))
  /\ toJSON = DefaultSnapshot
  /\ toJSON["a"] = Str("ab")

\* the events of the last segment that satisfy P, by position
FieldChanges == {k \in 1..Len(events) :
                   events[k].ev = "change" /\ events[k].on # "form"}
NamedChanges == {k \in 1..Len(events) :
                   \E n \in NameSet :
                     /\ events[k].ev = "change:" \o n
                     /\ events[k].value = value[n]}
FormChanges == {k \in 1..Len(events) : events[k] = EvFormChange}

\* C13: a Form.reset(...) that changes the value of one or more fields
\* emits exactly one form-level `change` event, and one `change:<name>`
\* event for each field that changed.
C13_ResetEmitsOneChange ==
  (last.op = "Form.reset" /\ FieldChanges # {}) =>
    /\ Cardinality(FormChanges) = 1
    /\ Cardinality(NamedChanges) = Cardinality(FieldChanges)
    /\ events[Len(events) - 1] = EvFormChange

\* C13 witness: a reset changed both fields and emitted one `change`
C13_Witness ==
  /\ last.op = "Form.reset"
  /\ Cardinality(FieldChanges) = 2
  /\ Cardinality(FormChanges) = 1

\* C14 (as stated): a Form.reset() that changes no field's value emits no
\* form-level `change` event.
C14_ResetWithoutChangeIsSilent ==
  (last.op = "Form.reset" /\ FieldChanges = {}) => FormChanges = {}

\* C15 (as stated): Form.clear() completes without error, leaves every
\* created field undefined, emits one form-level `change` when a value
\* changed and none otherwise, and leaves the status 'idle'.
C15_ClearCompletes ==
  last.op = "Form.clear" =>
    /\ last.ret = "undefined"
    /\ status = "idle"
    /\ \A n \in Range(created) : value[n] = Undef
    /\ Cardinality(FormChanges) <= 1

\* C16 (as stated): after Form.clear() validationErrors is empty,
\* submitError is undefined, every field's errors are empty and
\* form.isValid is true.
C16_ClearClearsErrors ==
  last.op = "Form.clear" =>
    /\ validationErrors = NoErrors
    /\ submitError = Undef
    /\ \A n \in Range(created) : errors[n] = <<>>
    /\ Form_isValid

\* C17: Form.field(name) always returns the one Field built for the name:
\* a Field is built, and its relay registered, exactly once per created
\* name; a call for a name that has its Field changes nothing; the field
\* named in both `fields` and `defaultValues` is built once, required and
\* with its default value.
C17_FieldIdempotent ==
  /\ [](/\ \A n \in NameSet : instances[n] = IF n \in Range(created) THEN 1 ELSE 0
        /\ Built(created, "b") = 1
        /\ required["b"]
        /\ last.op = "new Form" => defaultValue["b"] = Str("abcd")
        /\ last.op = "Form.field" => last.inst = 1)
  /\ [][(last'.op = "Form.field" /\ last'.f \in Range(created)) =>
          UNCHANGED <<created, instances, value, defaultValue, required,
                      validations, errors, validationErrors, submitError,
                      status>>]_vars

\* C17 witness: Form.field('a') called again after the field was created
\* on first access and given a value
C17_Witness ==
  /\ last.op = "Form.field" /\ last.f = "a" /\ last.inst = 1
  /\ value["a"] = Str("ab")
  /\ instances = [n \in NameSet |-> 1]

SignalDefaultOf(n) ==
  IF n \in DOMAIN formOptions.defaultValues
  THEN formOptions.defaultValues[n] ELSE Undef

\* C19 (as stated): in every state of the signal-based form isDirty() is
\* true iff some current value differs from its default value.
C19_SignalDirtyIffDiffers ==
  store # NoStore =>
    (store.dirty <=> \E n \in NameSet : ValueOf(n) # SignalDefaultOf(n))

\* C20 (as stated): a completed Field.validate() leaves exactly one
\* 'Required' error when the value is undefined or '' and the field is
\* required; in every other case (also for an empty value of an optional
\* field, for 0 and for false) it leaves the failures of all configured
\* validations, in declared order.
C20_ValidateRunsEveryRule ==
  (last.op = "Field.validate" /\ last.quiet /\ last.ret \in {"true", "false"}) =>
    LET n == last.f
        v == value[n]
    IN errors[n] = IF (v = Undef \/ v = Str("")) /\ required[n]
                   THEN <<ValidationError("Required")>>
                   ELSE RuleErrors(validations[n], v)

\* C21 (as stated): a validate() of a field that ran to its end returns
\* true exactly when the field has no errors after the run, for the core
\* Field and for the signal-based createField.
C21_ValidateReturnsValidity ==
  /\ (last.op = "Field.validate" /\ last.ret \in {"true", "false"}) =>
       (last.ret = "true" <=> errors[last.f] = <<>>)
  /\ (last.op = "createField.validate" /\ last.ret \in {"true", "false"}) =>
       (last.ret = "true" <=> store.validationErrors[last.f] = <<>>)

\* C22: a Field.validate() whose validation throws something other than a
\* ValidationError rejects with it and emits no validate event; every entry
\* of a field's errors is a ValidationError; an undisturbed validate of a
\* value the validations cannot measure never ends normally.
C22_OtherExceptionsPropagate ==
  /\ (last.op = "Field.validate" /\ last.ret = "TypeError") => events = <<>>
  /\ \A n \in Range(created) : \A k \in 1..Len(errors[n]) :
       errors[n][k].t = "ValidationError"
  /\ (last.op = "Field.validate" /\ last.quiet /\ value[last.f] = Obj) =>
       last.ret \in {"pending", "TypeError"}

\* C22 witness: a validate with trigger rejected with the TypeError of
\* getLenth, leaving no error entry and no event
C22_Witness ==
  /\ last.op = "Field.validate" /\ last.ret = "TypeError" /\ last.quiet
  /\ value[last.f] = Obj
  /\ errors[last.f] = <<>>
  /\ events = <<>>

\* the measure min and max compare: the length of a string, the value of a
\* number, the element count of an array
HasMeasure(v) == v.t \in {"string", "number", "array"}
Measure(v) ==
  IF v.t = "string" THEN Len(v.s) ELSE IF v.t = "number" THEN v.n ELSE v.len

\* C23 (as stated): a validate that ran min(n) and max(n) on a value
\* reports the failure of min exactly when the measure is < n and of max
\* exactly when it is > n, and ends with a TypeError when the value has no
\* measure, for the core validations and for those of src/src.
C23_MeasureOrTypeError ==
  /\ (/\ last.op = "Field.validate" /\ last.quiet /\ last.ret # "pending"
      /\ ~IsEmptyValue(value[last.f])) =>
       LET v == value[last.f]
           rules == validations[last.f]
       IN IF HasMeasure(v)
          THEN \A k \in 1..Len(rules) :
                 (ValidationError(rules[k].message) \in Range(errors[last.f]))
                   <=> \/ (rules[k].kind = "min" /\ Measure(v) < rules[k].n)
                       \/ (rules[k].kind = "max" /\ Measure(v) > rules[k].n)
          ELSE last.ret = "TypeError"
  /\ (/\ last.op = "createField.validate" /\ last.quiet
      /\ last.ret # "pending") =>
       LET v == ValueOf(last.f)
           rules == ValidationsOf(last.f)
           errs == Range(store.validationErrors[last.f])
       IN IF HasMeasure(v)
          THEN \A k \in 1..Len(rules) :
                 rules[k].name # "required" =>
                   ((Message(rules[k], last.f) \in errs)
                      <=> \/ (rules[k].name = "minimum length"
                                /\ Measure(v) < rules[k].n)
                          \/ (rules[k].name = "maximum length"
                                /\ Measure(v) > rules[k].n))
          ELSE last.ret = "TypeError"

\* the values the required check is said to reject, and to accept
Blank(v) == v \in {Undef, Str(""), Arr(0)}
Filled(v) == (v.t = "string" /\ Len(v.s) > 0) \/ (v.t = "array" /\ v.len > 0)

\* C24 (as stated): a validate of a required field reports the required
\* failure for undefined, '' and an empty array and does not report it for
\* a non-empty string or array, for the required flag of the core Field and
\* for required() of src/src.
C24_RequiredRejectsBlank ==
  /\ (/\ last.op = "Field.validate" /\ last.quiet /\ last.ret # "pending"
      /\ required[last.f]) =>
       LET v == value[last.f]
           failed == ValidationError("Required") \in Range(errors[last.f])
       IN (Blank(v) => failed) /\ (Filled(v) => ~failed)
  /\ (/\ last.op = "createField.validate" /\ last.quiet
      /\ last.ret # "pending"
      /\ Required \in Range(ValidationsOf(last.f))) =>
       LET v == ValueOf(last.f)
           failed == Message(Required, last.f)
                       \in Range(store.validationErrors[last.f])
       IN (Blank(v) => failed) /\ (Filled(v) => ~failed)

\* the calls an emit of payload p for event e makes when it invokes the
\* listeners ls, once each, in order
CallsOf(ls, e, p) == [k \in 1..Len(ls) |-> Call(ls[k], e, p)]

\* C25 (as stated): emit(event, payload) invokes exactly the listeners
\* registered for the event when emit is called, once each, in registration
\* order, with the payload, whatever on() and off() calls the listeners
\* make while they are invoked.
C25_EmitInvokesSnapshot ==
  last.op = "EventEmitter.emit" =>
    calls = CallsOf(last.before, last.f, last.payload)

\* C26: in an emit that invokes a listener which unsubscribes itself, every
\* listener registered when emit was called is invoked once, in order,
\* emit returns, and the listener is registered no more; an emit for an
\* event the listener is not registered for does not invoke it.
C26_SelfUnsubscribeIsSafe ==
  /\ (last.op = "EventEmitter.emit" /\ Leaver \in Range(last.before)) =>
       /\ last.ret = "undefined"
       /\ Len(calls) >= Len(last.before)
       /\ SubSeq(calls, 1, Len(last.before))
            = CallsOf(last.before, last.f, last.payload)
       /\ \A k \in 1..Len(calls) :
            k > Len(last.before) => calls[k].h = Late.id
       /\ Leaver \notin Range(listeners[last.f])
  /\ (last.op = "EventEmitter.emit" /\ Leaver \notin Range(last.before)) =>
       \A k \in 1..Len(calls) : calls[k].h # Leaver.id

\* C26 witness: the first of three listeners unsubscribed itself during
\* the emit, the other two were still invoked and stay registered
C26_Witness ==
  /\ last.op = "EventEmitter.emit"
  /\ last.before = <<Leaver, Plain, Late>>
  /\ calls = CallsOf(<<Leaver, Plain, Late>>, last.f, last.payload)
  /\ listeners[last.f] = <<Plain, Late>>

\* C27: ObservableList.insert(index, value) and remove(index) with an index
\* below 0 or not below the length throw a RangeError, leave the list as it
\* was and emit no change event.
C27_OutOfRangeThrows ==
  (/\ last.op \in {"ObservableList.insert", "ObservableList.remove"}
   /\ (last.index < 0 \/ last.index >= Len(last.before))) =>
    /\ last.ret = "RangeError"
    /\ items = last.before
    /\ Len(items) = Len(last.before)
    /\ events = <<>>

\* C27 witness: remove(length) on a list of two items threw and left both
C27_Witness ==
  /\ last.op = "ObservableList.remove"
  /\ last.index = Len(last.before)
  /\ last.ret = "RangeError"
  /\ Len(items) = 2

\* the events of the last segment that a field emitted, by position
FieldEvents(ev) == {k \in 1..Len(events) :
                      events[k].ev = ev /\ events[k].on \in NameSet}

\* C28: the form follows each field `change` event by one `change:<name>`
\* event with the same payload, and each field `validate` event by one
\* `validate:<name>` event whose listeners read validationErrors[name]
\* already holding the event's errors (invalid) or no entry (valid).
C28_RelayOrder ==
  /\ \A k \in FieldEvents("change") :
       /\ k < Len(events)
       /\ events[k + 1] = [on |-> "form",
                           ev |-> "change:" \o events[k].on,
                           prev |-> events[k].prev,
                           value |-> events[k].value]
  /\ Cardinality({k \in 1..Len(events) :
                    \E n \in NameSet : events[k].ev = "change:" \o n})
       = Cardinality(FieldEvents("change"))
  /\ \A k \in FieldEvents("validate") :
       /\ k < Len(events)
       /\ events[k + 1].on = "form"
       /\ events[k + 1].ev = "validate:" \o events[k].on
       /\ events[k + 1].status = events[k].status
       /\ events[k + 1].seen =
            IF events[k].status = "invalid"
            THEN [has |-> TRUE, errors |-> events[k].errors]
            ELSE [has |-> FALSE, errors |-> <<>>]
       /\ EntryOf(validationErrors, events[k].on) = events[k + 1].seen

\* C28 witness: a pass of Form.validate found field b empty, and the
\* listener of validate:b read the 'Required' error in validationErrors
C28_Witness ==
  /\ last.op = "Form.validate"
  /\ FieldEvents("validate") # {}
  /\ events[Len(events)].ev = "validate:b"
  /\ events[Len(events)].seen =
       [has |-> TRUE, errors |-> <<ValidationError("Required")>>]

\* the form's status while the k-th event of the segment was emitted
StatusChanges == {j \in 1..Len(events) : events[j].ev = "statusChange"}
Max(S) == CHOOSE x \in S : \A y \in S : y <= x
Min(S) == CHOOSE x \in S : \A y \in S : x <= y
StatusAt(k) ==
  LET before == {j \in StatusChanges : j < k}
      after == {j \in StatusChanges : j > k} IN
  IF before # {} THEN events[Max(before)].status
  ELSE IF after # {} THEN events[Min(after)].prev
  ELSE status

\* C29: a field's change is relayed as `change:<name>`, and the form-level
\* `change` follows it exactly when the form's status is "idle" at that
\* moment; under "validating", "submitting", "resetting" and "clearing"
\* only `change:<name>` is emitted
C29_ChangeOnlyWhenIdle ==
  \A k \in FieldEvents("change") :
    /\ k < Len(events)
    /\ events[k + 1].ev = "change:" \o events[k].on
    /\ (k + 2 <= Len(events) /\ events[k + 2] = EvFormChange)
         <=> StatusAt(k) = "idle"

C29_Witness ==
  /\ last.op = "Field.setValue"
  /\ last.ret = "true"
  /\ status = "validating"
  /\ events = <<EvFieldChange(last.f, Undef, value[last.f]),
                EvFormFieldChange(last.f, Undef, value[last.f])>>

\* the events of the last segment that field n emitted, in order
RECURSIVE EventsOn(_, _)
EventsOn(evs, n) ==
  IF evs = <<>> THEN <<>>
  ELSE (IF evs[1].on = n THEN <<evs[1]>> ELSE <<>>) \o EventsOn(Tail(evs), n)

\* C30: after Field.reset() the value equals defaultValue, errors is empty
\* and isDirty is false; the field emits `reset` always, preceded by
\* `change` {prev, value} exactly when the value changed; the return value
\* tells whether the value changed.
C30_FieldReset ==
  last.op = "Field.reset" =>
    LET n == last.f
        changed == last.before # value[n] IN
    /\ value[n] = defaultValue[n]
    /\ errors[n] = <<>>
    /\ ~Field_isDirty(n)
    /\ last.ret = Bool(changed)
    /\ EventsOn(events, n) =
         IF changed
         THEN <<[on |-> n, ev |-> "change", prev |-> last.before,
                 value |-> defaultValue[n]],
                [on |-> n, ev |-> "reset"]>>
         ELSE <<[on |-> n, ev |-> "reset"]>>

C30_Witness ==
  /\ last.op = "Field.reset"
  /\ last.f = "b"
  /\ last.ret = "true"
  /\ last.before = Undef
  /\ value["b"] = Str("abcd")
  /\ Len(events) = 4

\* field n is subscribed once to the Model that is its value and to no other
SubscribedToValue(n) ==
  \A c \in ModelIds : subs[c][n] = IF value[n] = Model(c) THEN 1 ELSE 0

\* Field.#setValue has run on the only field of SpecContainer
AfterSetValue ==
  last.op \in {"Field.setValue", "Field.reset", "Form.reset"} =>
    SubscribedToValue("a")

\* C31: a field is subscribed to the Model that is its current value and
\* to no other, so a mutation of a Model makes exactly the fields that
\* hold it emit `change`, also when the Model was the value given at
\* construction.
C31_MutationEmitsChange ==
  (last.op = "Model.set" /\ last.ret = "true") =>
    \A n \in Range(created) :
      (value[n] = Model(last.model)) <=> (FieldEvents("change") # {}
         /\ \E k \in FieldEvents("change") : events[k].on = n)

ValidateInvoked ==
  \/ \E k \in FieldEvents("validate") : events[k].on = ControlledField
  \/ /\ last.ret = "pending"
     /\ \E i \in Slots : /\ tasks[i].kind = "Field.validate"
                          /\ tasks[i].f = ControlledField
                          /\ tasks[i].vi = 1
                          /\ tasks[i].arg = value[ControlledField]

\* C33: an input event of an enabled controller sets the field's value
\* from the element; the controller calls field.validate() on an input
\* event iff validateMode is "change", on a blur event iff it is "blur",
\* never when it is "submit"; while the controller is disabled an element
\* event leaves the field as it is.
C33_ValidationPolicy ==
  /\ (last.op = "input" /\ ctrl.listening) =>
       /\ value[ControlledField] = el
       /\ ValidateInvoked <=> ctrl.mode = "change"
  /\ (last.op = "blur" /\ ctrl.listening) =>
       /\ value[ControlledField] = last.before
       /\ ValidateInvoked <=> ctrl.mode = "blur"
  /\ (last.op \in {"input", "blur"} /\ ctrl.mode = "submit") =>
       ~ValidateInvoked
  /\ (last.op \in {"input", "blur"} /\ ~ctrl.listening) =>
       /\ value[ControlledField] = last.before
       /\ events = <<>>
       /\ ~ValidateInvoked

C33_Witness ==
  /\ last.op = "input"
  /\ ctrl.listening
  /\ ctrl.mode = "change"
  /\ last.before = Str("")
  /\ el = Str("ab")
  /\ value[ControlledField] = Str("ab")
  /\ last.ret = "pending"

\* the calls of #onFieldChange in the last segment, by position
ElementWrites == {k \in 1..Len(events) : events[k].on = "element"}

\* C34: when an input event updates the field, the listeners of the field
\* see one `change` event and the controller's own #onFieldChange is not
\* called for it; afterwards that handler is registered on the field
\* exactly once, so that the next programmatic change of the field writes
\* the element exactly once.
C34_EchoSuppressed ==
  /\ [](  (last.op = "input" /\ ctrl.listening) =>
            /\ Cardinality(FieldEvents("change"))
                 = IF last.before # value[ControlledField] THEN 1 ELSE 0
            /\ ElementWrites = {}
            /\ ctrl.subs = 1)
  /\ [][ (last.op = "input" /\ ctrl.listening
           /\ last'.op = "Field.setValue" /\ last'.ret = "true") =>
            /\ Cardinality({k \in 1..Len(events') :
                              events'[k].on = "element"}) = 1
            /\ el' = Shown(value'[ControlledField]) ]_vars

C34_Witness ==
  /\ last.op = "input"
  /\ ctrl.listening
  /\ last.before = Str("ab")
  /\ value[ControlledField] = Str("")
  /\ Cardinality(FieldEvents("change")) = 1
  /\ ElementWrites = {}
  /\ ctrl.subs = 1

\* C35 (as stated): when a Field.validate() completes, every error of the
\* field is an error of the value the field has then, also when setValue
\* changed the value while the call was suspended; no error computed
\* for the old value is left.
C35_NoStaleErrors ==
  (last.op = "Field.validate" /\ last.ret \in {"true", "false"}) =>
    \A k \in 1..Len(errors[last.f]) :
      errors[last.f][k] \in Range(ErrorsOf(last.f))

\* C36 (as stated): when validate() is called again on a field while an
\* earlier validate() on it is still awaiting, as the InputController
\* does on rapid input in mode "change", then once every call has
\* completed the field's errors are those a single validate() of the
\* final value produces, each at most once.
C36_OverlappingValidations ==
  (/\ ctrl.mode = "change"
   /\ last.op \in {"Field.validate", "input"}
   /\ last.ret \in {"true", "false"}
   /\ InFlight = {}) =>
    errors[ControlledField] = ErrorsOf(ControlledField)

\* no error is recorded twice
NoDuplicateErrors ==
  \A n \in Range(created) : \A j, k \in 1..Len(errors[n]) :
    errors[n][j] = errors[n][k] => j = k

\* C37 (as stated): the status is "submitting" at every moment a submit
\* callback is in flight, also when submit() or validate() is called again
\* before an earlier submit() has completed.
C37_SubmittingWhileInFlight ==
  (\E i \in Slots : tasks[i].kind = "Form.submit") => status = "submitting"

\* C38 (as stated): the signal-based form is never in status "failed"
\* with no recorded submit error.
C38_FailedHasSubmitError ==
  store.status = "failed" => store.submitError # Undef

\* a field changed in the last segment and the form did not emit `change`
ChangedUnannounced ==
  /\ FieldEvents("change") # {}
  /\ ~HasEvent(EvFormChange)

\* C39 (as stated): a field's change made while the status is busy is
\* followed by a form-level `change` no later than the segment in which
\* the status returns to "idle".
C39_ChangeBeforeIdle ==
  [][(status # "idle" /\ ChangedUnannounced /\ status' = "idle")
       => \E k \in 1..Len(events') : events'[k] = EvFormChange]_vars

\* the fields some argument of Form.reset names
NamedInResetArgs == UNION {DOMAIN arg.map : arg \in {a \in ResetArgs : a.given}}

====
